---- MODULE Spec2Model ----
(***************************************************************************)
(* Verification model of the ai-sysadmin safety substrate:                 *)
(*   - SafeExecutor (executor.py): autonomy gate, action handlers,         *)
(*     approval queue with duplicate suppression, approve / reject;        *)
(*   - IssueTracker (issue_tracker.py) with the orchestrator's use of it.  *)
(*                                                                         *)
(* Strings are modelled as sequences of whitespace-separated tokens; a     *)
(* token is a TLA+ string whose characters are given by Spelling, so that  *)
(* lower(), startswith(), split() and the substring test `a in b` are      *)
(* computed on characters as Python computes them.                         *)
(***************************************************************************)
EXTENDS Integers, Sequences, FiniteSets, TLC

(* ------------------------------ bounds --------------------------------- *)

\* number of calls (execute_action / approve_action / reject_action) in a run
MaxClock == 3

\* number of executions (lines of actions.jsonl) in a run
MaxLog == 1

\* number of proposals submitted in a run of GateSpec
MaxGateCalls == 2

(* ------------------------- strings and tokens -------------------------- *)

\* the characters of every token used in proposals
Spelling(w) ==
  CASE
       w = "systemctl" -> <<"s", "y", "s", "t", "e", "m", "c", "t", "l">>
    [] w = "restart" -> <<"r", "e", "s", "t", "a", "r", "t">>
    [] w = "status" -> <<"s", "t", "a", "t", "u", "s">>
    [] w = "sshd" -> <<"s", "s", "h", "d">>
    [] w = "sshd.service" -> <<"s", "s", "h", "d", ".", "s", "e", "r", "v", "i", "c", "e">>
    [] w = "nginx" -> <<"n", "g", "i", "n", "x">>
    [] w = "nginx.service" -> <<"n", "g", "i", "n", "x", ".", "s", "e", "r", "v", "i", "c", "e">>
    [] w = "dbus" -> <<"d", "b", "u", "s">>
    [] w = "dbus.service" -> <<"d", "b", "u", "s", ".", "s", "e", "r", "v", "i", "c", "e">>
    [] w = "ssh*" -> <<"s", "s", "h", "*">>
    [] w = "df" -> <<"d", "f">>
    [] w = "-h" -> <<"-", "h">>
    [] w = "rm" -> <<"r", "m">>
    [] w = "-rf" -> <<"-", "r", "f">>
    [] w = "/" -> <<"/">>
    [] w = ";" -> <<";">>
    [] w = "psql" -> <<"p", "s", "q", "l">>
    [] w = "journalctl" -> <<"j", "o", "u", "r", "n", "a", "l", "c", "t", "l">>
    [] w = "free" -> <<"f", "r", "e", "e">>
    [] w = "ps" -> <<"p", "s">>
    [] w = "netstat" -> <<"n", "e", "t", "s", "t", "a", "t">>
    [] w = "ss" -> <<"s", "s">>
    [] w = "Nginx" -> <<"N", "g", "i", "n", "x">>
    [] w = "service" -> <<"s", "e", "r", "v", "i", "c", "e">>
    [] w = "failed" -> <<"f", "a", "i", "l", "e", "d">>
    [] w = "to" -> <<"t", "o">>
    [] w = "start" -> <<"s", "t", "a", "r", "t">>
    [] w = "again" -> <<"a", "g", "a", "i", "n">>
    [] w = "disk" -> <<"d", "i", "s", "k">>
    [] w = "is" -> <<"i", "s">>
    [] w = "full" -> <<"f", "u", "l", "l">>
    [] w = "the" -> <<"t", "h", "e">>
    [] w = "The" -> <<"T", "h", "e">>
    [] w = "run" -> <<"r", "u", "n">>
    [] w = "nix" -> <<"n", "i", "x">>
    [] w = "cleanup" -> <<"c", "l", "e", "a", "n", "u", "p">>
    [] w = "rebuild" -> <<"r", "e", "b", "u", "i", "l", "d">>
    [] w = "unix" -> <<"u", "n", "i", "x">>
    [] w = "socket" -> <<"s", "o", "c", "k", "e", "t">>
    [] w = "edit" -> <<"e", "d", "i", "t">>
    [] w = "config" -> <<"c", "o", "n", "f", "i", "g">>
    [] w = "check" -> <<"c", "h", "e", "c", "k">>
    [] w = "usage" -> <<"u", "s", "a", "g", "e">>
    [] w = "System" -> <<"S", "y", "s", "t", "e", "m">>
    [] w = "already" -> <<"a", "l", "r", "e", "a", "d", "y">>
    [] w = "in" -> <<"i", "n">>
    [] w = "trigger" -> <<"t", "r", "i", "g", "g", "e", "r">>
    [] w = "progress" -> <<"p", "r", "o", "g", "r", "e", "s", "s">>
    [] w = "segfault" -> <<"s", "e", "g", "f", "a", "u", "l", "t">>
    [] w = "Failed" -> <<"F", "a", "i", "l", "e", "d">>
    [] w = "FAILED" -> <<"F", "A", "I", "L", "E", "D">>
    [] w = "review" -> <<"r", "e", "v", "i", "e", "w">>
    [] w = "meta" -> <<"m", "e", "t", "a">>
    [] w = "-u" -> <<"-", "u">>
    [] w = "-n" -> <<"-", "n">>
    [] w = "50" -> <<"5", "0">>
    [] w = "--vacuum-time=7d" -> <<"-", "-", "v", "a", "c", "u", "u", "m">>
    [] w = "nix-collect-garbage" -> <<"n", "i", "x", "-", "c", "o", "l", "l", "e", "c", "t">>
    [] w = "--delete-old" -> <<"-", "-", "d", "e", "l", "e", "t", "e">>
    [] w = "logs" -> <<"l", "o", "g", "s">>

\* str.lower() on one character (only the upper-case letters in use)
LowerChar(c) ==
  CASE c = "N" -> "n"
    [] c = "T" -> "t"
    [] c = "S" -> "s"
    [] c = "F" -> "f"
    [] c = "A" -> "a"
    [] c = "I" -> "i"
    [] c = "L" -> "l"
    [] c = "E" -> "e"
    [] c = "D" -> "d"
    [] OTHER -> c

\* str.lower() on the characters of a token
LowerChars(cs) == [i \in 1..Len(cs) |-> LowerChar(cs[i])]

\* the characters of a string given as a token sequence (single spaces)
RECURSIVE StrChars(_)
StrChars(toks) ==
  IF toks = <<>> THEN <<>>
  ELSE IF Len(toks) = 1 THEN Spelling(toks[1])
  ELSE Spelling(toks[1]) \o <<" ">> \o StrChars(Tail(toks))

\* str.startswith(prefix) on character sequences
StartsWith(cs, prefix) ==
  /\ Len(prefix) <= Len(cs)
  /\ SubSeq(cs, 1, Len(prefix)) = prefix

\* Python's `needle in haystack` on character sequences
IsSubstring(needle, hay) ==
  \E i \in 1..(Len(hay) - Len(needle) + 1) :
     SubSeq(hay, i, i + Len(needle) - 1) = needle

\* dict.get(key, default) on a record that lists its present keys
Get(d, key, default) == IF key \in d.keys THEN d[key] ELSE default

(* --------------------------- SafeExecutor data ------------------------- *)

AutonomyLevels == {"observe", "suggest", "auto-safe", "auto-full"}

ActionTypes == {"systemd_restart", "cleanup", "nix_rebuild", "config_change", "investigation"}

RiskLevels == {"low", "medium", "high"}

SAFE_ACTIONS == {"systemd_restart", "cleanup", "investigation"}

\* the protected unit names, as characters
PROTECTED_SERVICES ==
  { <<"s","s","h","d">>,
    <<"s","y","s","t","e","m","d","-","n","e","t","w","o","r","k","d">>,
    <<"N","e","t","w","o","r","k","M","a","n","a","g","e","r">>,
    <<"s","y","s","t","e","m","d","-","r","e","s","o","l","v","e","d">>,
    <<"d","b","u","s">> }

\* the stop words of _similarity_check, as characters
common_words ==
  { <<"t","h","e">>, <<"a">>, <<"a","n">>, <<"a","n","d">>,
    <<"o","r">>, <<"b","u","t">>, <<"i","n">>, <<"o","n">>,
    <<"a","t">>, <<"t","o">>, <<"f","o","r">>, <<"o","f">>,
    <<"w","i","t","h">>, <<"b","y">>, <<"i","s">>, <<"a","r","e">>,
    <<"w","a","s">>, <<"w","e","r","e">>, <<"b","e">>, <<"b","e","e","n">>,
    <<"h","a","v","e">>, <<"h","a","s">>, <<"h","a","d">> }

\* the allow-list prefixes of _run_investigation, as characters
safe_commands ==
  { <<"j","o","u","r","n","a","l","c","t","l">>,
    <<"s","y","s","t","e","m","c","t","l"," ","s","t","a","t","u","s">>,
    <<"d","f">>,
    <<"f","r","e","e">>,
    <<"p","s">>,
    <<"n","e","t","s","t","a","t">>,
    <<"s","s">> }

\* "systemctl restart " (with the trailing blank)
RestartPrefix == StrChars(<<"systemctl", "restart">>) \o <<" ">>

(* ------------------------------ the gate ------------------------------- *)

\* a faulty gate: auto-full lets every risk level through
GateWithoutHighRiskCheck(level, action_type, risk_level) ==
  IF level = "observe"
    THEN [ok |-> FALSE, reason |-> "Autonomy level set to observe-only"]
  ELSE IF action_type = "investigation" /\ risk_level = "low"
    THEN [ok |-> TRUE, reason |-> "Auto-approved: Low-risk information gathering"]
  ELSE IF level = "suggest"
    THEN [ok |-> FALSE, reason |-> "Autonomy level requires manual approval"]
  ELSE IF level = "auto-safe"
    THEN IF action_type \in SAFE_ACTIONS /\ risk_level = "low"
           THEN [ok |-> TRUE, reason |-> "Auto-executing safe action"]
           ELSE [ok |-> FALSE, reason |-> "Action requires higher autonomy level"]
  ELSE IF level = "auto-full"
    THEN [ok |-> TRUE, reason |-> "Auto-executing approved action"]
  ELSE [ok |-> FALSE, reason |-> "Unknown autonomy level"]

\* a faulty gate: auto-safe lets every low-risk action type through
GateWithoutSafeActions(level, action_type, risk_level) ==
  IF level = "observe"
    THEN [ok |-> FALSE, reason |-> "Autonomy level set to observe-only"]
  ELSE IF action_type = "investigation" /\ risk_level = "low"
    THEN [ok |-> TRUE, reason |-> "Auto-approved: Low-risk information gathering"]
  ELSE IF level = "suggest"
    THEN [ok |-> FALSE, reason |-> "Autonomy level requires manual approval"]
  ELSE IF level = "auto-safe"
    THEN IF risk_level = "low"
           THEN [ok |-> TRUE, reason |-> "Auto-executing safe action"]
           ELSE [ok |-> FALSE, reason |-> "Action requires higher autonomy level"]
  ELSE IF level = "auto-full"
    THEN IF risk_level = "high"
           THEN [ok |-> FALSE, reason |-> "High risk actions always require approval"]
           ELSE [ok |-> TRUE, reason |-> "Auto-executing approved action"]
  ELSE [ok |-> FALSE, reason |-> "Unknown autonomy level"]

_should_execute(level, action_type, risk_level) ==
  IF level = "observe"
    THEN [ok |-> FALSE, reason |-> "Autonomy level set to observe-only"]
  ELSE IF action_type = "investigation" /\ risk_level = "low"
    THEN [ok |-> TRUE, reason |-> "Auto-approved: Low-risk information gathering"]
  ELSE IF level = "suggest"
    THEN [ok |-> FALSE, reason |-> "Autonomy level requires manual approval"]
  ELSE IF level = "auto-safe"
    THEN IF action_type \in SAFE_ACTIONS /\ risk_level = "low"
           THEN [ok |-> TRUE, reason |-> "Auto-executing safe action"]
           ELSE [ok |-> FALSE, reason |-> "Action requires higher autonomy level"]
  ELSE IF level = "auto-full"
    THEN IF risk_level = "high"
           THEN [ok |-> FALSE, reason |-> "High risk actions always require approval"]
           ELSE [ok |-> TRUE, reason |-> "Auto-executing approved action"]
  ELSE [ok |-> FALSE, reason |-> "Unknown autonomy level"]

(* ------------------------ duplicate detection -------------------------- *)

\* set(s.lower().split())
WordSet(text) == {LowerChars(Spelling(text[i])) : i \in 1..Len(text)}

\* a faulty similarity: no shortcut for equal strings
SimilarityWithoutExactMatch(str1, str2) ==
  LET words1 == WordSet(str1) \ common_words
      words2 == WordSet(str2) \ common_words
      intersection == Cardinality(words1 \cap words2)
      union == Cardinality(words1 \cup words2)
  IN  IF words1 = {} \/ words2 = {} THEN <<0, 1>>
      ELSE IF union > 0 THEN <<intersection, union>> ELSE <<0, 1>>

\* the float returned by _similarity_check, as the fraction <<num, den>>
_similarity_check(str1, str2) ==
  LET s1 == LowerChars(StrChars(str1))
      s2 == LowerChars(StrChars(str2))
      words1 == WordSet(str1) \ common_words
      words2 == WordSet(str2) \ common_words
      intersection == Cardinality(words1 \cap words2)
      union == Cardinality(words1 \cup words2)
  IN  IF s1 = s2 THEN <<1, 1>>
      ELSE IF words1 = {} \/ words2 = {} THEN <<0, 1>>
      ELSE IF union > 0 THEN <<intersection, union>> ELSE <<0, 1>>

\* a faulty threshold: f > 0.8
Above08(f) == 10 * f[1] > 8 * f[2]

\* f > 0.7 for a fraction f
Above07(f) == 10 * f[1] > 7 * f[2]

\* the loop of _queue_for_approval: does some pending entry suppress `action`
IsDuplicatePending(queue, action) ==
  LET proposed_action == Get(action, "proposed_action", <<>>)
      diagnosis == Get(action, "diagnosis", <<>>)
  IN  \E i \in 1..Len(queue) :
        LET existing == queue[i]
            existing_proposed == Get(existing.action, "proposed_action", <<>>)
            existing_diagnosis == Get(existing.action, "diagnosis", <<>>)
        IN  /\ existing.approved = "None"
            /\ \/ /\ diagnosis # <<>>
                  /\ existing_diagnosis # <<>>
                  /\ Above07(_similarity_check(diagnosis, existing_diagnosis))
               \/ /\ proposed_action # <<>>
                  /\ existing_proposed # <<>>
                  /\ Above07(_similarity_check(proposed_action, existing_proposed))

\* a faulty enqueue: the new entry goes to the front
QueueAtFront(queue, action, context, now) ==
  IF IsDuplicatePending(queue, action)
    THEN queue
    ELSE <<[timestamp |-> now, action |-> action,
            context |-> context, approved |-> "None"]>> \o queue

\* the queue file after _queue_for_approval(action, context) at time now
_queue_for_approval(queue, action, context, now) ==
  IF IsDuplicatePending(queue, action)
    THEN queue
    ELSE Append(queue, [timestamp |-> now, action |-> action,
                        context |-> context, approved |-> "None"])

(* --------------------------- action handlers --------------------------- *)

\* what a subprocess call can do: exit 0, exit non-zero, time out, or fail
\* to start (OSError)
HostOutcomes == {"ok", "fail", "timeout", "oserror"}

\* the outcomes of the host calls a handler makes for `action`, by position:
\* one per command, and two for the handlers that make two fixed calls
HostEnvs(action) ==
  LET n == Len(Get(action, "commands", <<>>))
  IN  [1..(IF n > 2 THEN n ELSE 2) -> HostOutcomes]

\* a host call: argv passed as a list (shell = FALSE) or a command line
\* handed to /bin/sh (shell = TRUE)
HostCall(shell, argv) == [shell |-> shell, argv |-> argv]

\* what a handler hands back: the dict it returns (success / output / error,
\* with the keys it sets), the host calls it made, the patch files it wrote,
\* and whether it left by an exception
Handled(keys, success, output, error, calls, patches, raised) ==
  [keys |-> keys, success |-> success, output |-> output, error |-> error,
   calls |-> calls, patches |-> patches, raised |-> raised]

Line(kind, text) == [kind |-> kind, text |-> text]

IsProtected(service) ==
  \E protected \in PROTECTED_SERVICES : IsSubstring(protected, Spelling(service))

\* the for-loop of _restart_services from command i on
RECURSIVE RestartLoop(_, _, _, _, _)
RestartLoop(commands, i, env, output_lines, calls) ==
  IF i > Len(commands)
    THEN Handled({"success", "output"}, Len(output_lines) > 0, output_lines,
                 "None", calls, {}, FALSE)
  ELSE
    LET cmd == commands[i]
        service == cmd[Len(cmd)]
        run == HostCall(FALSE, <<"systemctl", "restart", service>>)
    IN  IF ~StartsWith(StrChars(cmd), RestartPrefix)
          THEN RestartLoop(commands, i + 1, env, output_lines, calls)
        ELSE IF IsProtected(service)
          THEN RestartLoop(commands, i + 1, env,
                           Append(output_lines, Line("BLOCKED", <<service>>)), calls)
        ELSE IF env[i] = "oserror"
          THEN Handled({}, FALSE, <<>>, "None", calls, {}, TRUE)
        ELSE RestartLoop(commands, i + 1, env,
               Append(output_lines,
                      Line(CASE env[i] = "ok" -> "Restarted"
                             [] env[i] = "fail" -> "Failed to restart"
                             [] OTHER -> "Timeout restarting", <<service>>)),
               calls \cup {run})

_restart_services(action, env) ==
  RestartLoop(Get(action, "commands", <<>>), 1, env, <<>>, {})

\* "nix" in proposed_action.lower()
MentionsNix(text) ==
  \E i \in 1..Len(text) : IsSubstring(<<"n", "i", "x">>, LowerChars(Spelling(text[i])))

_perform_cleanup(action, env) ==
  LET nix == MentionsNix(Get(action, "proposed_action", <<>>))
      nixLines == IF ~nix THEN <<>>
                  ELSE IF env[1] \in {"ok", "fail"}
                    THEN <<Line("Nix cleanup", <<>>)>>
                    ELSE <<Line("Nix cleanup failed", <<>>)>>
      nixCalls == IF nix /\ env[1] # "oserror"
                    THEN {HostCall(FALSE, <<"nix-collect-garbage", "--delete-old">>)}
                    ELSE {}
      jLines == IF env[2] \in {"ok", "fail"}
                  THEN <<Line("Journal cleanup", <<>>)>>
                  ELSE <<Line("Journal cleanup failed", <<>>)>>
      jCalls == IF env[2] # "oserror"
                  THEN {HostCall(FALSE, <<"journalctl", "--vacuum-time=7d">>)}
                  ELSE {}
  IN  Handled({"success", "output"}, TRUE, nixLines \o jLines, "None",
              nixCalls \cup jCalls, {}, FALSE)

_nix_rebuild(action, env) ==
  LET dry == HostCall(FALSE, <<"nixos-rebuild", "dry-build", "--flake", ".#macha">>)
      switch == HostCall(FALSE, <<"nixos-rebuild", "switch", "--flake", ".#macha">>)
      dryCalls == IF env[1] = "oserror" THEN {} ELSE {dry}
      swCalls == IF env[2] = "oserror" THEN {dry} ELSE {dry, switch}
  IN  IF env[1] = "fail"
        THEN Handled({"success", "output"}, FALSE, <<Line("Dry build failed", <<>>)>>,
                     "None", dryCalls, {}, FALSE)
      ELSE IF env[1] # "ok"
        THEN Handled({"success", "output"}, FALSE, <<Line("Dry build error", <<>>)>>,
                     "None", dryCalls, {}, FALSE)
      ELSE IF env[2] = "ok"
        THEN Handled({"success", "output", "error"}, TRUE,
                     <<Line("Dry build successful", <<>>), Line("stdout", <<>>)>>,
                     "None", swCalls, {}, FALSE)
      ELSE IF env[2] = "fail"
        THEN Handled({"success", "output", "error"}, FALSE,
                     <<Line("Dry build successful", <<>>), Line("stdout", <<>>)>>,
                     "stderr", swCalls, {}, FALSE)
      ELSE Handled({"success", "output", "error"}, FALSE,
                   <<Line("Dry build successful", <<>>)>>,
                   "exception", swCalls, {}, FALSE)

NoConfigChanges == [file |-> ""]

_apply_config_change(action, now, env) ==
  LET config_changes == Get(action, "config_changes", NoConfigChanges)
      file_path == config_changes.file
  IN  IF file_path = ""
        THEN Handled({"success", "output"}, FALSE,
                     <<Line("No file specified in config_changes", <<>>)>>,
                     "None", {}, {}, FALSE)
      ELSE IF env[1] = "oserror"
        THEN Handled({}, FALSE, <<>>, "None", {}, {}, TRUE)
      ELSE Handled({"success", "output"}, TRUE,
                   <<Line("Config change suggestion saved", <<file_path>>)>>,
                   "None", {}, {[patch_file |-> now, file |-> file_path]}, FALSE)

IsSafeCommand(cmd) ==
  \E safe \in safe_commands : StartsWith(StrChars(cmd), safe)

\* the for-loop of _run_investigation from command i on
RECURSIVE InvestigationLoop(_, _, _, _, _)
InvestigationLoop(commands, i, env, output_lines, calls) ==
  IF i > Len(commands)
    THEN Handled({"success", "output"}, TRUE, output_lines, "None", calls, {}, FALSE)
  ELSE
    LET cmd == commands[i]
    IN  IF ~IsSafeCommand(cmd)
          THEN InvestigationLoop(commands, i + 1, env,
                 Append(output_lines, Line("BLOCKED unsafe command", cmd)), calls)
        ELSE IF env[i] \in {"ok", "fail"}
          THEN InvestigationLoop(commands, i + 1, env,
                 output_lines \o <<Line("$", cmd), Line("stdout", cmd)>>,
                 calls \cup {HostCall(TRUE, cmd)})
        ELSE InvestigationLoop(commands, i + 1, env,
               Append(output_lines, Line("Error running", cmd)),
               IF env[i] = "timeout" THEN calls \cup {HostCall(TRUE, cmd)} ELSE calls)

_run_investigation(action, env) ==
  InvestigationLoop(Get(action, "commands", <<>>), 1, env, <<>>, {})

\* the result dict; keys lists the keys it has
Result(keys, executed, status, reason, timestamp, action, success, output, error) ==
  [keys |-> keys, executed |-> executed, status |-> status, reason |-> reason,
   timestamp |-> timestamp, action |-> action, success |-> success,
   output |-> output, error |-> error]

ImplKeys == {"executed", "timestamp", "action", "success", "output", "error"}

\* the try-block of _execute_action_impl: the handler chosen by action_type
Dispatch(action, now, env) ==
  LET action_type == Get(action, "action_type", "None")
  IN  CASE action_type = "systemd_restart" -> _restart_services(action, env)
        [] action_type = "cleanup" -> _perform_cleanup(action, env)
        [] action_type = "nix_rebuild" -> _nix_rebuild(action, env)
        [] action_type = "config_change" -> _apply_config_change(action, now, env)
        [] action_type = "investigation" -> _run_investigation(action, env)
        [] OTHER -> Handled({"error"}, FALSE, <<>>, "Unknown action type", {}, {}, FALSE)

\* the result dict built by _execute_action_impl from the handler's return
ImplResult(action, now, h) ==
  Result(ImplKeys, TRUE, "", "", now, action,
         IF h.raised THEN FALSE ELSE IF "success" \in h.keys THEN h.success ELSE FALSE,
         IF h.raised THEN <<>> ELSE IF "output" \in h.keys THEN h.output ELSE <<>>,
         IF h.raised THEN "exception" ELSE IF "error" \in h.keys THEN h.error ELSE "None")

\* the arguments of agent.reflect_and_learn after a successful execution
Learning(action, result) ==
  [situation |-> Get(action, "diagnosis", <<"Unknown", "situation">>),
   action_taken |-> Get(action, "proposed_action", <<"Unknown", "action">>),
   outcome |-> Get(result, "output", <<>>),
   success |-> TRUE]

_dry_run_action(action) ==
  Result({"executed", "status", "action", "output"}, FALSE, "dry_run", "", 0, action,
         FALSE, <<Line("Dry run mode - no actual changes made", <<>>)>>, "None")

(* ------------------- the host's service manager ------------------------ *)

\* the units loaded on the host, by their full names
HostUnits == {"sshd.service", "nginx.service", "dbus.service"}

\* the loaded units whose name is in PROTECTED_SERVICES
ProtectedUnits == {"sshd.service", "dbus.service"}

UnitSuffix == <<".", "s", "e", "r", "v", "i", "c", "e">>

\* systemctl completes a name without a unit suffix with ".service"
MangleUnitName(cs) ==
  IF Len(cs) >= Len(UnitSuffix)
     /\ SubSeq(cs, Len(cs) - Len(UnitSuffix) + 1, Len(cs)) = UnitSuffix
    THEN cs
    ELSE cs \o UnitSuffix

\* systemctl matches its unit arguments against the loaded units as globs
RECURSIVE GlobMatch(_, _)
GlobMatch(pattern, name) ==
  IF pattern = <<>> THEN name = <<>>
  ELSE IF Head(pattern) = "*"
    THEN \/ GlobMatch(Tail(pattern), name)
         \/ name # <<>> /\ GlobMatch(pattern, Tail(name))
  ELSE /\ name # <<>>
       /\ Head(pattern) = Head(name)
       /\ GlobMatch(Tail(pattern), Tail(name))

\* the loaded units that `systemctl restart <argv[3..]>` restarts
RestartedByArgv(argv) ==
  IF Len(argv) >= 3 /\ argv[1] = "systemctl" /\ argv[2] = "restart"
    THEN {u \in HostUnits :
            \E k \in 3..Len(argv) :
               GlobMatch(MangleUnitName(Spelling(argv[k])), Spelling(u))}
    ELSE {}

\* /bin/sh runs the commands of a line separated by ";" one after the other
RECURSIVE ShellSegments(_, _)
ShellSegments(toks, current) ==
  IF toks = <<>> THEN {current}
  ELSE IF Head(toks) = ";" THEN {current} \cup ShellSegments(Tail(toks), <<>>)
  ELSE ShellSegments(Tail(toks), Append(current, Head(toks)))

RestartedByCall(call) ==
  IF call.shell
    THEN UNION {RestartedByArgv(seg) : seg \in ShellSegments(call.argv, <<>>)}
    ELSE RestartedByArgv(call.argv)

\* the units the service manager was told to restart by a set of host calls
RestartedUnits(calls) == UNION {RestartedByCall(c) : c \in calls}

(* ----------------------------- proposals ------------------------------- *)

ProposalKeys ==
  {"action_type", "risk_level", "commands", "diagnosis", "proposed_action", "config_changes"}

Proposal(keys, action_type, risk_level, commands, diagnosis, proposed_action, file) ==
  [keys |-> keys, action_type |-> action_type, risk_level |-> risk_level,
   commands |-> commands, diagnosis |-> diagnosis,
   proposed_action |-> proposed_action, config_changes |-> [file |-> file]]

RestartNginx == <<"systemctl", "restart", "nginx">>
RestartSshd == <<"systemctl", "restart", "sshd">>
RestartSshdService == <<"systemctl", "restart", "sshd.service">>
RestartGlob == <<"systemctl", "restart", "ssh*">>
DiskFree == <<"df", "-h">>
StatusThenRestart == <<"systemctl", "status", "sshd", ";", "systemctl", "restart", "sshd">>

DiagDisk == <<"disk", "is", "full">>
DiagNginx1 == <<"Nginx", "service", "failed", "to", "start">>
DiagNginx2 == <<"nginx", "service", "failed", "start", "again">>
DiagNginx3 == <<"nginx", "service", "failed">>
DiagSshd == <<"sshd", "failed">>
DiagStop == <<"the">>
DiagStopUpper == <<"The">>
DiagSocket == <<"unix", "socket", "failed">>

DefaultCommands(t) ==
  CASE t = "systemd_restart" -> <<RestartNginx>>
    [] t = "investigation" -> <<DiskFree>>
    [] OTHER -> <<>>

DefaultProposed(t) ==
  CASE t = "cleanup" -> <<"run", "nix", "cleanup">>
    [] t = "nix_rebuild" -> <<"rebuild">>
    [] t = "config_change" -> <<"edit", "config">>
    [] OTHER -> <<"check", "disk", "usage">>

\* one proposal for every action type (and one unknown type) and risk level
GateProposals ==
  {Proposal(ProposalKeys, t, r, DefaultCommands(t), DiagDisk, DefaultProposed(t),
            IF t = "config_change" /\ r # "medium" THEN "configuration.nix" ELSE "")
     : t \in ActionTypes \cup {"reboot"}, r \in RiskLevels}

\* proposals without a risk_level key
MissingRiskProposals ==
  {Proposal(ProposalKeys \ {"risk_level"}, t, "", DefaultCommands(t), DiagDisk,
            DefaultProposed(t), "")
     : t \in {"investigation", "systemd_restart"}}

\* restarts of protected units
ProtectedProposals ==
  {Proposal(ProposalKeys, "systemd_restart", "low", <<RestartNginx, RestartSshd>>, DiagSshd,
            <<"restart", "sshd">>, ""),
   Proposal(ProposalKeys, "systemd_restart", "low", <<RestartSshdService>>, DiagSshd,
            <<"restart", "sshd">>, ""),
   Proposal(ProposalKeys, "systemd_restart", "low", <<RestartGlob>>, DiagSocket,
            <<"restart", "socket">>, "")}

\* an investigation with a second command on the line
InvestigationProposals ==
  {Proposal(ProposalKeys, "investigation", "low", <<StatusThenRestart>>, DiagSshd,
            <<"check", "sshd">>, "")}

\* proposals that differ in how similar their texts are
SimilarProposals ==
  {Proposal(ProposalKeys, "config_change", "medium", <<>>, d, p, "configuration.nix")
     : <<d, p>> \in {<<DiagNginx1, <<"restart", "nginx">>>>,
                    <<DiagNginx2, <<"start", "nginx", "again">>>>,
                    <<DiagNginx3, <<"run", "nginx">>>>}}
  \cup
  {Proposal(ProposalKeys, "config_change", "high", <<>>, d, <<>>, "")
     : d \in {DiagStop, DiagStopUpper}}
  \cup
  {Proposal({"action_type", "risk_level", "commands"}, "systemd_restart", "medium",
            <<RestartNginx>>, <<>>, <<>>, "")}

\* the proposals submitted under Spec
Proposals == ProtectedProposals \cup InvestigationProposals \cup SimilarProposals

\* the proposals submitted under GateSpec
AllGateProposals == GateProposals \cup MissingRiskProposals

MonitoringContexts == {"snapshot"}

(* ------------------------------- state --------------------------------- *)

VARIABLES
  autonomy_level,    \* SafeExecutor.autonomy_level
  dry_run,           \* SafeExecutor.dry_run
  has_agent,         \* whether SafeExecutor.agent is set
  approval_queue,    \* the entries of approval_queue.json
  action_log,        \* the lines of actions.jsonl
  approved_actions,  \* the lines of approved_actions.jsonl
  host_calls,        \* the subprocess calls made so far
  patch_files,       \* the suggested_patch_* files written so far
  learned,           \* the calls of agent.reflect_and_learn so far
  clock,             \* the time, advanced by every call
  op_pc,             \* where approve_action is: idle, execute, archive, remove
  op_index,          \* approve_action's index argument
  op_queue,          \* approve_action's local `queue`
  op_result,         \* approve_action's local `result`
  last               \* the last finished call and what it returned

execVars ==
  <<autonomy_level, dry_run, has_agent, approval_queue, action_log, approved_actions,
    host_calls, patch_files, learned, clock, op_pc, op_index, op_queue, op_result, last>>

NoAction == Proposal({}, "", "", <<>>, <<>>, <<>>, "")

NoResult == Result({}, FALSE, "", "", 0, NoAction, FALSE, <<>>, "None")

\* a finished call: its name, arguments and return value
Call(op, action, index, result, ret) ==
  [op |-> op, action |-> action, index |-> index, result |-> result, ret |-> ret]

ExecInit ==
  /\ autonomy_level \in AutonomyLevels
  /\ dry_run \in BOOLEAN
  /\ has_agent \in BOOLEAN
  /\ approval_queue = <<>>
  /\ action_log = <<>>
  /\ approved_actions = <<>>
  /\ host_calls = {}
  /\ patch_files = {}
  /\ learned = <<>>
  /\ clock = 0
  /\ op_pc = "idle"
  /\ op_index = 0
  /\ op_queue = <<>>
  /\ op_result = NoResult
  /\ last = Call("none", NoAction, 0, NoResult, FALSE)

(* --------------------------- SafeExecutor ------------------------------ *)

\* _execute_action_impl(action, context): run the handler, log the result,
\* and call the learning hook after a success
ExecuteImpl(action, now, env) ==
  LET h == Dispatch(action, now, env)
      result == ImplResult(action, now, h)
  IN  /\ host_calls' = host_calls \cup h.calls
      /\ patch_files' = patch_files \cup h.patches
      /\ action_log' = Append(action_log, result)
      /\ learned' = IF result.success /\ has_agent
                      THEN Append(learned, Learning(action, result))
                      ELSE learned
      /\ op_result' = result

GateResult(status, reason) ==
  Result({"executed", "status", "reason"} \cup
           (IF status = "queued_for_approval" THEN {"queue_file"} ELSE {}),
         FALSE, status, reason, 0, NoAction, FALSE, <<>>, "None")

\* execute_action(action, monitoring_context)
execute_action(action, monitoring_context) ==
  LET action_type == Get(action, "action_type", "unknown")
      risk_level == Get(action, "risk_level", "high")
      decision == _should_execute(autonomy_level, action_type, risk_level)
      now == clock + 1
  IN  /\ op_pc = "idle"
      /\ clock' = now
      /\ UNCHANGED <<autonomy_level, dry_run, has_agent, approved_actions,
                     op_pc, op_index, op_queue>>
      /\ IF ~decision.ok
           THEN /\ approval_queue' =
                     IF autonomy_level = "suggest"
                       THEN _queue_for_approval(approval_queue, action,
                                                monitoring_context, now)
                       ELSE approval_queue
                /\ last' = Call("execute_action", action, 0,
                                GateResult(IF autonomy_level = "suggest"
                                             THEN "queued_for_approval" ELSE "blocked",
                                           decision.reason), FALSE)
                /\ UNCHANGED <<action_log, host_calls, patch_files, learned, op_result>>
         ELSE IF dry_run
           THEN /\ last' = Call("execute_action", action, 0, _dry_run_action(action), FALSE)
                /\ UNCHANGED <<approval_queue, action_log, host_calls, patch_files,
                               learned, op_result>>
         ELSE \E env \in HostEnvs(action) :
                /\ Len(action_log) < MaxLog
                /\ ExecuteImpl(action, now, env)
                /\ last' = Call("execute_action", action, 0, op_result', FALSE)
                /\ UNCHANGED approval_queue

\* a faulty removal: always the last entry
PopLast(queue, index) == SubSeq(queue, 1, Len(queue) - 1)

\* list.pop(index) for a 0-based index
Pop(queue, index) ==
  [k \in 1..(Len(queue) - 1) |-> IF k <= index THEN queue[k] ELSE queue[k + 1]]

\* approve_action(index), up to the range check on the queue it has read
ApproveBegin(index) ==
  /\ op_pc = "idle"
  /\ clock' = clock + 1
  /\ IF 0 <= index /\ index < Len(approval_queue)
       THEN /\ Len(action_log) < MaxLog
            /\ op_pc' = "execute"
            /\ op_index' = index
            /\ op_queue' = approval_queue
            /\ UNCHANGED last
       ELSE /\ last' = Call("approve_action", NoAction, index, NoResult, FALSE)
            /\ UNCHANGED <<op_pc, op_index, op_queue>>
  /\ UNCHANGED <<autonomy_level, dry_run, has_agent, approval_queue, action_log,
                 approved_actions, host_calls, patch_files, learned, op_result>>

\* approve_action: result = self._execute_action_impl(action_item["action"], ...)
ApproveExecute ==
  /\ op_pc = "execute"
  /\ \E env \in HostEnvs(op_queue[op_index + 1].action) :
        ExecuteImpl(op_queue[op_index + 1].action, clock, env)
  /\ op_pc' = "archive"
  /\ UNCHANGED <<autonomy_level, dry_run, has_agent, approval_queue, approved_actions,
                 clock, op_index, op_queue, last>>

\* the line _archive_action appends
ArchiveEntry(action_item, result, now) ==
  [timestamp |-> now, original_timestamp |-> action_item.timestamp,
   action |-> action_item.action, context |-> action_item.context, result |-> result]

\* approve_action: self._archive_action(action_item, result)
ApproveArchive ==
  /\ op_pc = "archive"
  /\ approved_actions' =
       Append(approved_actions, ArchiveEntry(op_queue[op_index + 1], op_result, clock))
  /\ op_pc' = "remove"
  /\ UNCHANGED <<autonomy_level, dry_run, has_agent, approval_queue, action_log,
                 host_calls, patch_files, learned, clock, op_index, op_queue,
                 op_result, last>>

\* approve_action: queue.pop(index), write the queue file, return
ApproveRemove ==
  /\ op_pc = "remove"
  /\ approval_queue' = Pop(op_queue, op_index)
  /\ last' = Call("approve_action", op_queue[op_index + 1].action, op_index, op_result,
                  Get(op_result, "success", FALSE))
  /\ op_pc' = "idle"
  /\ op_index' = 0
  /\ op_queue' = <<>>
  /\ op_result' = NoResult
  /\ UNCHANGED <<autonomy_level, dry_run, has_agent, action_log, approved_actions,
                 host_calls, patch_files, learned, clock>>

\* reject_action(index)
reject_action(index) ==
  /\ op_pc = "idle"
  /\ clock' = clock + 1
  /\ IF 0 <= index /\ index < Len(approval_queue)
       THEN /\ approval_queue' = Pop(approval_queue, index)
            /\ last' = Call("reject_action", approval_queue[index + 1].action, index,
                            NoResult, TRUE)
       ELSE /\ last' = Call("reject_action", NoAction, index, NoResult, FALSE)
            /\ UNCHANGED approval_queue
  /\ UNCHANGED <<autonomy_level, dry_run, has_agent, action_log, approved_actions,
                 host_calls, patch_files, learned, op_pc, op_index, op_queue, op_result>>

\* execute_action in the orchestrator's process while the operator's
\* approve_action, in its own process, is between reading the queue file and
\* writing it: the gate refuses the proposal and _queue_for_approval adds it
execute_action_meanwhile(action, monitoring_context) ==
  LET action_type == Get(action, "action_type", "unknown")
      risk_level == Get(action, "risk_level", "high")
      decision == _should_execute(autonomy_level, action_type, risk_level)
      now == clock + 1
  IN  /\ op_pc # "idle"
      /\ autonomy_level = "suggest"
      /\ ~decision.ok
      /\ clock' = now
      /\ approval_queue' = _queue_for_approval(approval_queue, action, monitoring_context, now)
      /\ UNCHANGED <<autonomy_level, dry_run, has_agent, action_log, approved_actions,
                     host_calls, patch_files, learned, op_pc, op_index, op_queue, op_result,
                     last>>

\* the indices a caller may pass: every valid one, and one below and above
Indices == -1..Len(approval_queue)

(* ============================ IssueTracker ============================= *)

\* number of tracker calls in a run
MaxIssueOps == 3

\* number of issue ids (uuid4 values) handed out in a run
MaxIssues == 2

Statuses == {"open", "investigating", "fixing", "resolved", "closed"}

Hostnames == {"alpha", "beta"}

TitleNginxDown == <<"nginx", "failed">>
TitleNginxAgain == <<"Nginx", "failed", "again">>
TitleDisk == <<"disk", "is", "full">>

\* the problem descriptions reported to the tracker; a title is the first 100
\* characters of a description, which is all of it for these
TitleRebuild == <<"nix", "rebuild">>

TitleSocket == <<"unix", "socket">>

Descriptions == {TitleNginxDown, TitleNginxAgain, TitleDisk, TitleRebuild}

\* the lists of currently detected problems given to auto_resolve_if_fixed
DetectedLists == {<<>>, <<TitleNginxDown>>, <<TitleDisk>>, <<TitleSocket>>}

VARIABLES
  issue_store,     \* the live issues of the context database, by issue_id
  closed_log,      \* the lines of closed_issues.jsonl
  next_issue,      \* the next fresh issue_id
  status_history,  \* by issue_id, the statuses the issue has had, in order
  tracker_last     \* the last tracker call and what it returned

issueVars == <<issue_store, closed_log, next_issue, status_history, tracker_last>>

TrackerCall(op, issue_id, ok, count) ==
  [op |-> op, issue_id |-> issue_id, ok |-> ok, count |-> count]

IssueInit ==
  /\ issue_store = <<>>
  /\ closed_log = <<>>
  /\ next_issue = 1
  /\ status_history = <<>>
  /\ tracker_last = TrackerCall("none", 0, FALSE, 0)

LiveIds == DOMAIN issue_store

\* ContextDatabase.get_issue: the stored issue, or None
HasIssue(issue_id) == issue_id \in LiveIds

\* ContextDatabase.store_issue / update_issue: (re)place the issue under its id
StoreIssue(store, issue) ==
  [id \in DOMAIN store \cup {issue.issue_id} |->
     IF id = issue.issue_id THEN issue ELSE store[id]]

\* ContextDatabase.delete_issue
DeleteIssue(store, issue_id) == [id \in DOMAIN store \ {issue_id} |-> store[id]]

\* the history with the status the issue has now, if it is a new one
Observe(history, issue_id, status) ==
  IF issue_id \in DOMAIN history /\ history[issue_id][Len(history[issue_id])] = status
    THEN history
    ELSE [id \in DOMAIN history \cup {issue_id} |->
            IF id = issue_id
              THEN (IF id \in DOMAIN history THEN history[id] ELSE <<>>) \o <<status>>
              ELSE history[id]]

\* sorted(..., key=created_at, reverse=True) over the ids in `ids`
RECURSIVE NewestFirst(_, _)
NewestFirst(store, ids) ==
  IF ids = {} THEN <<>>
  ELSE LET newest == CHOOSE i \in ids :
                        \A j \in ids : store[j].created_at <= store[i].created_at
       IN  <<store[newest]>> \o NewestFirst(store, ids \ {newest})

\* list_issues(hostname, status): an empty filter value is no filter
list_issues(store, hostname, status) ==
  NewestFirst(store,
    {id \in DOMAIN store :
       /\ hostname = "" \/ store[id].hostname = hostname
       /\ status = "" \/ store[id].status = status})

\* len(title_words & issue_words) / max(len(title_words), 1) > 0.5
TitlesOverlap(title, issue_title) ==
  LET title_words == WordSet(title)
      issue_words == WordSet(issue_title)
      n == Cardinality(title_words)
  IN  2 * Cardinality(title_words \cap issue_words) > (IF n > 1 THEN n ELSE 1)

\* find_similar_issue(hostname, title): the matching ids, first match first
SimilarIssues(store, hostname, title) ==
  SelectSeq(list_issues(store, hostname, "open"),
            LAMBDA issue : TitlesOverlap(title, issue.title))

\* a faulty search: the last match instead of the first
FindLastSimilar(store, hostname, title) ==
  LET found == SimilarIssues(store, hostname, title)
  IN  IF found = <<>> THEN 0 ELSE found[Len(found)].issue_id

\* find_similar_issue: the issue_id found, or 0 for None
find_similar_issue(store, hostname, title) ==
  LET found == SimilarIssues(store, hostname, title)
  IN  IF found = <<>> THEN 0 ELSE found[1].issue_id

NewIssue(issue_id, hostname, title, description, severity, source, now) ==
  [issue_id |-> issue_id, hostname |-> hostname, title |-> title,
   description |-> description, status |-> "open", severity |-> severity,
   created_at |-> now, updated_at |-> now, source |-> source,
   investigations |-> <<>>, actions |-> <<>>, resolution |-> "None", closed_at |-> 0]

\* create_issue(hostname, title, description, severity, source)
create_issue(hostname, title, description, severity, source) ==
  LET now == clock + 1
      issue == NewIssue(next_issue, hostname, title, description, severity, source, now)
  IN  /\ clock' = now
      /\ issue_store' = StoreIssue(issue_store, issue)
      /\ next_issue' = next_issue + 1
      /\ status_history' = Observe(status_history, issue.issue_id, "open")
      /\ tracker_last' = TrackerCall("create_issue", issue.issue_id, TRUE, 0)
      /\ UNCHANGED closed_log

\* the issue after update_issue(issue_id, status, investigation, action);
\* "" and <<>> stand for None
Updated(issue, status, investigation, action, now) ==
  [issue EXCEPT
     !.status = IF status # "" THEN status ELSE @,
     !.investigations =
        IF investigation # <<>> THEN Append(@, [investigation[1] EXCEPT !.timestamp = now])
                                ELSE @,
     !.actions =
        IF action # <<>> THEN Append(@, [action[1] EXCEPT !.timestamp = now]) ELSE @,
     !.updated_at = now]

\* update_issue(issue_id, status, investigation, action)
update_issue(issue_id, status, investigation, action) ==
  LET now == clock + 1
  IN  /\ clock' = now
      /\ IF ~HasIssue(issue_id)
           THEN /\ tracker_last' = TrackerCall("update_issue", issue_id, FALSE, 0)
                /\ UNCHANGED <<issue_store, status_history>>
           ELSE LET issue == Updated(issue_store[issue_id], status, investigation,
                                     action, now)
                IN  /\ issue_store' = StoreIssue(issue_store, issue)
                    /\ status_history' = Observe(status_history, issue_id, issue.status)
                    /\ tracker_last' = TrackerCall("update_issue", issue_id, TRUE, 0)
      /\ UNCHANGED <<closed_log, next_issue>>

\* the issue after resolve_issue
Resolved(issue, resolution, now) ==
  [issue EXCEPT !.status = "resolved", !.resolution = resolution, !.updated_at = now]

\* resolve_issue(issue_id, resolution)
resolve_issue(issue_id, resolution) ==
  LET now == clock + 1
  IN  /\ clock' = now
      /\ IF ~HasIssue(issue_id)
           THEN /\ tracker_last' = TrackerCall("resolve_issue", issue_id, FALSE, 0)
                /\ UNCHANGED <<issue_store, status_history>>
           ELSE /\ issue_store' =
                     StoreIssue(issue_store, Resolved(issue_store[issue_id], resolution, now))
                /\ status_history' = Observe(status_history, issue_id, "resolved")
                /\ tracker_last' = TrackerCall("resolve_issue", issue_id, TRUE, 0)
      /\ UNCHANGED <<closed_log, next_issue>>

\* a faulty close: any live issue is closed, whatever its status
CloseFromAnyStatus(issue_id, archived) ==
  LET now == clock + 1
  IN  /\ clock' = now
      /\ IF ~HasIssue(issue_id)
           THEN /\ tracker_last' = TrackerCall("close_issue", issue_id, FALSE, 0)
                /\ UNCHANGED <<issue_store, closed_log, status_history>>
           ELSE LET issue == [issue_store[issue_id] EXCEPT
                                !.status = "closed", !.closed_at = now]
                IN  /\ closed_log' = IF archived THEN Append(closed_log, issue)
                                                 ELSE closed_log
                    /\ issue_store' = DeleteIssue(issue_store, issue_id)
                    /\ status_history' = Observe(status_history, issue_id, "closed")
                    /\ tracker_last' = TrackerCall("close_issue", issue_id, TRUE, 0)
      /\ UNCHANGED next_issue

\* close_issue(issue_id); archived tells whether the append to the closed log
\* worked (a failure is printed and ignored)
close_issue(issue_id, archived) ==
  LET now == clock + 1
  IN  /\ clock' = now
      /\ IF ~HasIssue(issue_id) \/ issue_store[issue_id].status # "resolved"
           THEN /\ tracker_last' = TrackerCall("close_issue", issue_id, FALSE, 0)
                /\ UNCHANGED <<issue_store, closed_log, status_history>>
           ELSE LET issue == [issue_store[issue_id] EXCEPT
                                !.status = "closed", !.closed_at = now]
                IN  /\ closed_log' = IF archived THEN Append(closed_log, issue)
                                                 ELSE closed_log
                    /\ issue_store' = DeleteIssue(issue_store, issue_id)
                    /\ status_history' = Observe(status_history, issue_id, "closed")
                    /\ tracker_last' = TrackerCall("close_issue", issue_id, TRUE, 0)
      /\ UNCHANGED next_issue

\* any(word in detected for word in text.split()) for the lowercased texts
AnyWordIn(text, detected) ==
  \E i \in 1..Len(text) :
     IsSubstring(LowerChars(Spelling(text[i])), LowerChars(StrChars(detected)))

\* the still_present flag of auto_resolve_if_fixed for one issue
StillPresent(issue, detected_problems) ==
  \E k \in 1..Len(detected_problems) :
     \/ AnyWordIn(issue.title, detected_problems[k])
     \/ AnyWordIn(issue.description, detected_problems[k])

AutoResolveNote == "Auto-resolved: Problem no longer detected in system monitoring"

\* the ids auto_resolve_if_fixed resolves
AutoResolved(store, hostname, detected_problems) ==
  LET open_issues == list_issues(store, hostname, "open")
  IN  {open_issues[k].issue_id : k \in
         {j \in 1..Len(open_issues) : ~StillPresent(open_issues[j], detected_problems)}}

RECURSIVE ObserveAll(_, _, _)
ObserveAll(history, ids, status) ==
  IF ids = {} THEN history
  ELSE LET id == CHOOSE i \in ids : TRUE
       IN  ObserveAll(Observe(history, id, status), ids \ {id}, status)

\* auto_resolve_if_fixed(hostname, detected_problems)
auto_resolve_if_fixed(hostname, detected_problems) ==
  LET now == clock + 1
      fixed == AutoResolved(issue_store, hostname, detected_problems)
  IN  /\ clock' = now
      /\ issue_store' =
           [id \in DOMAIN issue_store |->
              IF id \in fixed THEN Resolved(issue_store[id], AutoResolveNote, now)
                              ELSE issue_store[id]]
      /\ status_history' = ObserveAll(status_history, fixed, "resolved")
      /\ tracker_last' = TrackerCall("auto_resolve_if_fixed", 0, TRUE, Cardinality(fixed))
      /\ UNCHANGED <<closed_log, next_issue>>

(* ------------------ the orchestrator's use of the tracker -------------- *)

\* MachaOrchestrator._track_or_update_issue(system_hostname, issue_description, severity)
_track_or_update_issue(system_hostname, issue_description, severity) ==
  LET title == issue_description
      existing == find_similar_issue(issue_store, system_hostname, title)
  IN  IF existing # 0
        THEN /\ clock' = clock + 1
             /\ tracker_last' = TrackerCall("_track_or_update_issue", existing, FALSE, 0)
             /\ UNCHANGED <<issue_store, closed_log, next_issue, status_history>>
        ELSE /\ create_issue(system_hostname, title, issue_description, severity,
                             "auto-detected")

\* the dict _link_action_to_issue records for an investigation
InvestigationNote(fix_proposal, execution_result) ==
  [commands |-> Get(fix_proposal, "commands", <<>>),
   output |-> Get(execution_result, "output", <<>>),
   success |-> Get(execution_result, "success", FALSE),
   diagnosis |-> Get(fix_proposal, "diagnosis", <<>>),
   proposed_action |-> <<>>, risk_level |-> "", timestamp |-> 0]

\* the dict _link_action_to_issue records for any other action
ActionNote(fix_proposal, execution_result) ==
  [commands |-> Get(fix_proposal, "commands", <<>>),
   output |-> Get(execution_result, "output", <<>>),
   success |-> Get(execution_result, "success", FALSE),
   diagnosis |-> <<>>,
   proposed_action |-> Get(fix_proposal, "proposed_action", <<>>),
   risk_level |-> Get(fix_proposal, "risk_level", "unknown"), timestamp |-> 0]

\* MachaOrchestrator._link_action_to_issue(issue_id, fix_proposal, execution_result)
_link_action_to_issue(issue_id, fix_proposal, execution_result) ==
  IF Get(fix_proposal, "action_type", "unknown") = "investigation"
    THEN update_issue(issue_id, "investigating",
                      <<InvestigationNote(fix_proposal, execution_result)>>, <<>>)
    ELSE update_issue(issue_id, "fixing", <<>>,
                      <<ActionNote(fix_proposal, execution_result)>>)

(* ------------------ the orchestrator's maintenance cycle --------------- *)

\* what the backend does with the analysis request: the request is skipped
\* because an AUTONOMOUS request is already queued, the backend fails, the
\* reply holds no JSON object, or the reply is a JSON object
AnalysisOutcomes == {"skipped", "failed", "unparsable", "parsed"}

SkipNotice == <<"System", "check", "already", "in", "progress">>

\* one entry of the "issues" list of an analysis
Report(description, requires_action) ==
  [description |-> description, requires_action |-> requires_action,
   severity |-> "warning"]

\* the "issues" lists the model may reply with
IssueLists ==
  {<<>>, <<Report(TitleNginxDown, TRUE)>>, <<Report(TitleNginxAgain, TRUE)>>,
   <<Report(TitleDisk, FALSE)>>}

\* a response string of the backend: plain text, or text holding a JSON object
Response(is_json, text, keys, issues) ==
  [is_json |-> is_json, text |-> text, keys |-> keys, issues |-> issues]

\* MetaModel._query_ollama: the response string for each outcome
_query_ollama(outcome, issues) ==
  CASE outcome = "skipped" -> Response(FALSE, SkipNotice, {}, <<>>)
    [] outcome = "failed" ->
         Response(TRUE, <<>>, {"error", "diagnosis", "action_type", "risk_level"}, <<>>)
    [] outcome = "unparsable" -> Response(FALSE, <<>>, {}, <<>>)
    [] outcome = "parsed" ->
         Response(TRUE, <<>>, {"status", "issues", "overall_assessment"}, issues)

\* an analysis as run_once sees it: a dict, or a str
Analysis(is_str, text, keys, issues) ==
  [is_str |-> is_str, text |-> text, keys |-> keys, issues |-> issues]

\* MetaModel._parse_analysis_response: the JSON object of the response, or
\* the "healthy" default when there is none
_parse_analysis_response(response) ==
  IF response.is_json
    THEN Analysis(FALSE, <<>>, response.keys, response.issues)
    ELSE Analysis(FALSE, <<>>,
                  {"status", "issues", "overall_assessment", "recommended_actions"}, <<>>)

\* MetaModel.analyze_system_state
analyze_system_state(outcome, issues) ==
  _parse_analysis_response(_query_ollama(outcome, issues))

\* run_once: isinstance(analysis, str) and "already in progress" in analysis.lower()
IsSkipped(analysis) ==
  /\ analysis.is_str
  /\ IsSubstring(StrChars(<<"already", "in", "progress">>),
                 LowerChars(StrChars(analysis.text)))

\* a proposal whose risk_level is JSON null: run_once raises on
\* fix_proposal.get('risk_level', 'unknown').upper()
NullRiskProposal ==
  Proposal(ProposalKeys, "systemd_restart", "None", <<RestartNginx>>, DiagNginx3,
           <<"restart", "nginx">>, "")

\* the proposals propose_fix may return
FixProposals ==
  {Proposal(ProposalKeys, "systemd_restart", "low", <<RestartNginx>>, DiagNginx3,
            <<"restart", "nginx">>, "")}

CycleProposals == InvestigationProposals \cup FixProposals \cup {NullRiskProposal}

SystemHostname == "alpha"

VARIABLES
  cycle_pc,        \* where run_once is: idle, track, execute, link, followup, resolve
  cycle_count,     \* self._cycle_count
  cycle_outcome,   \* what the backend did with this cycle's analysis request
  cycle_todo,      \* the issues requiring action not yet handled
  cycle_detected,  \* the descriptions of all issues of the analysis
  cycle_issue_id,  \* issue_id of the issue being handled
  cycle_proposal,  \* fix_proposal
  cycle_result     \* execution_result

cycleVars ==
  <<cycle_pc, cycle_count, cycle_outcome, cycle_todo, cycle_detected, cycle_issue_id,
    cycle_proposal, cycle_result>>

CycleInit ==
  /\ cycle_pc = "idle"
  /\ cycle_count = 0
  /\ cycle_outcome = "none"
  /\ cycle_todo = <<>>
  /\ cycle_detected = <<>>
  /\ cycle_issue_id = 0
  /\ cycle_proposal = NoAction
  /\ cycle_result = NoResult

\* run_once up to the analysis: the cycle ends at once when the analysis is
\* the skip notice; otherwise the issues requiring action are handled in turn
CycleBegin(outcome, issues) ==
  LET analysis == analyze_system_state(outcome, issues)
      reported == Get(analysis, "issues", <<>>)
      todo == SelectSeq(reported, LAMBDA r : r.requires_action)
  IN  /\ cycle_pc = "idle"
      /\ cycle_count' = cycle_count + 1
      /\ cycle_outcome' = outcome
      /\ IF IsSkipped(analysis)
           THEN /\ cycle_pc' = "idle"
                /\ UNCHANGED <<cycle_todo, cycle_detected>>
           ELSE /\ cycle_todo' = todo
                /\ cycle_detected' = [k \in 1..Len(reported) |-> reported[k].description]
                /\ cycle_pc' = IF todo = <<>> THEN "resolve" ELSE "track"
      /\ UNCHANGED <<cycle_issue_id, cycle_proposal, cycle_result>>

\* run_once: issue_id = self._track_or_update_issue(...)
CycleTrack ==
  /\ cycle_pc = "track"
  /\ _track_or_update_issue(SystemHostname, cycle_todo[1].description,
                            cycle_todo[1].severity)
  /\ cycle_issue_id' = tracker_last'.issue_id
  /\ cycle_pc' = "execute"
  /\ UNCHANGED <<cycle_count, cycle_outcome, cycle_todo, cycle_detected, cycle_proposal,
                 cycle_result>>

\* the pc after the issue in hand is done
AfterIssue == IF Len(cycle_todo) > 1 THEN "track" ELSE "resolve"

\* run_once: fix_proposal = self.agent.propose_fix(...), the logging of it,
\* and execution_result = self.executor.execute_action(fix_proposal, ...)
CycleExecute(fix_proposal) ==
  /\ cycle_pc = "execute"
  /\ IF Get(fix_proposal, "risk_level", "unknown") = "None"
       THEN /\ cycle_pc' = "idle"
            /\ cycle_todo' = <<>>
            /\ UNCHANGED <<execVars, cycle_proposal, cycle_result>>
       ELSE /\ execute_action(fix_proposal, "snapshot")
            /\ cycle_proposal' = fix_proposal
            /\ cycle_result' = last'.result
            /\ cycle_pc' = "link"
            /\ UNCHANGED cycle_todo
  /\ UNCHANGED <<cycle_count, cycle_outcome, cycle_detected, cycle_issue_id>>

\* run_once: the investigation succeeded and a follow-up fix is asked for
WantsFollowUp ==
  /\ Get(cycle_proposal, "action_type", "None") = "investigation"
  /\ Get(cycle_result, "executed", FALSE)
  /\ Get(cycle_result, "success", FALSE)
  /\ Get(cycle_result, "output", <<>>) # <<>>

\* run_once: self._link_action_to_issue(issue_id, fix_proposal, execution_result)
CycleLink ==
  /\ cycle_pc = "link"
  /\ _link_action_to_issue(cycle_issue_id, cycle_proposal, cycle_result)
  /\ cycle_pc' = IF WantsFollowUp THEN "followup" ELSE AfterIssue
  /\ cycle_todo' = IF WantsFollowUp THEN cycle_todo ELSE Tail(cycle_todo)
  /\ UNCHANGED <<cycle_count, cycle_outcome, cycle_detected, cycle_issue_id,
                 cycle_proposal, cycle_result>>

\* run_once: the follow-up proposal is executed unless it is an investigation
CycleFollowUp(actual_fix_proposal) ==
  /\ cycle_pc = "followup"
  /\ IF Get(actual_fix_proposal, "risk_level", "unknown") = "None"
       THEN /\ cycle_pc' = "idle"
            /\ cycle_todo' = <<>>
            /\ UNCHANGED <<execVars, cycle_result>>
     ELSE IF Get(actual_fix_proposal, "action_type", "None") # "investigation"
       THEN /\ execute_action(actual_fix_proposal, "snapshot")
            /\ cycle_result' = last'.result
            /\ cycle_pc' = AfterIssue
            /\ cycle_todo' = Tail(cycle_todo)
       ELSE /\ cycle_pc' = AfterIssue
            /\ cycle_todo' = Tail(cycle_todo)
            /\ UNCHANGED <<execVars, cycle_result>>
  /\ UNCHANGED <<cycle_count, cycle_outcome, cycle_detected, cycle_issue_id,
                 cycle_proposal>>

\* run_once: self._auto_resolve_fixed_issues(system_hostname, detected_problems)
CycleResolve ==
  /\ cycle_pc = "resolve"
  /\ auto_resolve_if_fixed(SystemHostname, cycle_detected)
  /\ cycle_pc' = "idle"
  /\ UNCHANGED <<cycle_count, cycle_outcome, cycle_todo, cycle_detected, cycle_issue_id,
                 cycle_proposal, cycle_result>>

(* --------------------------- ContextManager ---------------------------- *)

\* an event as the context layer sees it: its type and the lengths, in
\* characters, of the texts that decide the cost of its entry
Event(type, type_chars, json_chars, trigger_type_chars, value_chars, message_chars) ==
  [type |-> type, type_chars |-> type_chars, json_chars |-> json_chars,
   trigger_type_chars |-> trigger_type_chars, value_chars |-> value_chars,
   message_chars |-> message_chars]

\* {"type": "review_completed", "status": "healthy"}
ReviewCompleted == Event("review_completed", 16, 49, 0, 0, 0)

\* a metric_threshold event of the trigger layer: trigger_type "cpu_high",
\* value 91.0, with threshold, severity, message and timestamp
CpuHigh == Event("metric_threshold", 16, 184, 8, 4, 18)

Events == {ReviewCompleted, CpuHigh}

Sources == {"trigger"}

\* the context sizes the manager is constructed with, in tokens
ContextSizes == {100, 150}

\* count_tokens without tiktoken: len(text) // 4
count_tokens(chars) == chars \div 4

\* the number of digits of a token count
Digits(n) == IF n < 10 THEN 1 ELSE IF n < 100 THEN 2 ELSE IF n < 1000 THEN 3 ELSE 4

\* len(json.dumps(entry)) for a new entry:
\* {"timestamp": "<26>", "source": "<source>", "event": <event>, "compressed": false}
NewEntryChars(event, source) ==
  15 + 26 + 14 + Len(Spelling(source)) + 12 + event.json_chars + 22

\* len(_create_entry_summary(entry))
SummaryChars(event) ==
  IF event.type = "metric_threshold"
    THEN event.trigger_type_chars + 2 + event.value_chars
  ELSE IF event.type = "service_failure"
    \* "Service <service>: <status>", the two lengths being those of the
    \* service and of the status
    THEN 8 + event.trigger_type_chars + 2 + event.value_chars
  ELSE IF event.message_chars > 0
    THEN (IF event.message_chars < 100 THEN event.message_chars ELSE 100)
  ELSE event.type_chars + 6

\* len(json.dumps(entry)) once the event is {"summary": ...}, compressed is
\* true and the entry carries the token_count it had
CompressedEntryChars(entry) ==
  15 + 26 + 14 + Len(Spelling(entry.source)) + 12
    + (15 + SummaryChars(entry.event)) + 20 + 17 + Digits(entry.token_count) + 1

\* deque(maxlen=10000), scaled down
BufferMaxlen == 3

\* entries younger than this many seconds are not compressed
RecentSeconds == 600

\* the manager's buffer, its counter and its statistics
Context(entries, tokens, stats) ==
  [entries |-> entries, current_token_count |-> tokens, compression_stats |-> stats]

Stats(total_compressions, tokens_saved, entries_compressed) ==
  [total_compressions |-> total_compressions, tokens_saved |-> tokens_saved,
   entries_compressed |-> entries_compressed]

\* _compress_old_entries: the positions chosen, oldest first, until the
\* tokens they hold reach tokens_to_free
RECURSIVE EntriesToCompress(_, _, _, _, _)
EntriesToCompress(entries, k, tokens_freed, tokens_to_free, now) ==
  IF k > Len(entries) THEN {}
  ELSE IF entries[k].compressed \/ now - entries[k].timestamp < RecentSeconds
    THEN EntriesToCompress(entries, k + 1, tokens_freed, tokens_to_free, now)
  ELSE IF tokens_freed + entries[k].token_count >= tokens_to_free
    THEN {k}
  ELSE {k} \cup EntriesToCompress(entries, k + 1, tokens_freed + entries[k].token_count,
                                  tokens_to_free, now)

\* the entry after its compression
CompressedEntry(entry) ==
  [entry EXCEPT !.compressed = TRUE,
                !.token_count = count_tokens(CompressedEntryChars(entry))]

RECURSIVE SumTokens(_)
SumTokens(entries) ==
  IF entries = <<>> THEN 0 ELSE entries[1].token_count + SumTokens(Tail(entries))

\* _compress_old_entries(target_tokens)
_compress_old_entries(c, target_tokens, now) ==
  LET tokens_to_free == c.current_token_count - target_tokens
      chosen == EntriesToCompress(c.entries, 1, 0, tokens_to_free, now)
      entries == [k \in 1..Len(c.entries) |->
                    IF k \in chosen THEN CompressedEntry(c.entries[k]) ELSE c.entries[k]]
      tokens_saved == SumTokens(c.entries) - SumTokens(entries)
  IN  IF tokens_to_free <= 0 THEN c
      ELSE Context(entries, c.current_token_count - tokens_saved,
                   Stats(c.compression_stats.total_compressions + 1,
                         c.compression_stats.tokens_saved + tokens_saved,
                         c.compression_stats.entries_compressed + Cardinality(chosen)))

\* deque.append with maxlen: a full deque drops its oldest entry
DequeAppend(entries, entry) ==
  IF Len(entries) >= BufferMaxlen THEN Append(Tail(entries), entry)
                                  ELSE Append(entries, entry)

\* the buffer as add_event finds it when it appends: compressed first if the
\* new entry would not fit
BeforeAppend(c, entry_tokens, size, now) ==
  IF c.current_token_count + entry_tokens > size
    THEN _compress_old_entries(c, size \div 2, now)
    ELSE c

\* add_event(event, source)
AddEvent(c, event, source, size, now) ==
  LET entry_tokens == count_tokens(NewEntryChars(event, source))
      entry == [timestamp |-> now, source |-> source, event |-> event,
                compressed |-> FALSE, token_count |-> entry_tokens]
      b == BeforeAppend(c, entry_tokens, size, now)
  IN  Context(DequeAppend(b.entries, entry), b.current_token_count + entry_tokens,
              b.compression_stats)

\* add_events(events, source)
RECURSIVE AddEvents(_, _, _, _, _)
AddEvents(c, events, source, size, now) ==
  IF events = <<>> THEN c
  ELSE AddEvents(AddEvent(c, events[1], source, size, now), Tail(events), source, size, now)

VARIABLES
  context_size,         \* ContextManager.context_size
  context_entries,      \* ContextManager.context_entries
  current_token_count,  \* ContextManager.current_token_count
  compression_stats,    \* ContextManager.compression_stats
  context_file,         \* context_buffer.json: <<>> or <<what was saved>>
  utcnow,               \* datetime.utcnow(), in seconds
  context_ops,          \* the number of operations on the manager so far
  context_last          \* the last operation and the compression pass it ran

ctxVars ==
  <<context_size, context_entries, current_token_count, compression_stats, context_file,
    utcnow, context_ops, context_last>>

ThisContext == Context(context_entries, current_token_count, compression_stats)

\* what an operation did: its name, and the buffer before and after the
\* compression pass it ran, if it ran one
ContextCall(op, compressed, before, after) ==
  [op |-> op, compressed |-> compressed, before |-> before, after |-> after]

ContextInit ==
  /\ context_size \in ContextSizes
  /\ context_entries = <<>>
  /\ current_token_count = 0
  /\ compression_stats = Stats(0, 0, 0)
  /\ context_file = <<>>
  /\ utcnow = 0
  /\ context_ops = 0
  /\ context_last = ContextCall("none", FALSE, ThisContext, ThisContext)

SetContext(c) ==
  /\ context_entries' = c.entries
  /\ current_token_count' = c.current_token_count
  /\ compression_stats' = c.compression_stats

\* add_event(event, source)
add_event(event, source) ==
  LET entry_tokens == count_tokens(NewEntryChars(event, source))
      b == BeforeAppend(ThisContext, entry_tokens, context_size, utcnow)
  IN  /\ SetContext(AddEvent(ThisContext, event, source, context_size, utcnow))
      /\ context_last' =
           ContextCall("add_event",
                       current_token_count + entry_tokens > context_size
                         /\ current_token_count > context_size \div 2,
                       ThisContext, b)
      /\ UNCHANGED <<context_size, context_file, utcnow>>

\* add_events(events, source)
add_events(events, source) ==
  /\ SetContext(AddEvents(ThisContext, events, source, context_size, utcnow))
  /\ context_last' = ContextCall("add_events", FALSE, ThisContext, ThisContext)
  /\ UNCHANGED <<context_size, context_file, utcnow>>

\* _save_context()
_save_context ==
  /\ context_file' = <<ThisContext>>
  /\ context_last' = ContextCall("_save_context", FALSE, ThisContext, ThisContext)
  /\ UNCHANGED <<context_size, context_entries, current_token_count, compression_stats,
                 utcnow>>

\* the manager is constructed again: _load_context() reads the file, if any
_load_context ==
  /\ SetContext(IF context_file = <<>> THEN Context(<<>>, 0, Stats(0, 0, 0))
                                       ELSE context_file[1])
  /\ context_last' = ContextCall("_load_context", FALSE, ThisContext, ThisContext)
  /\ UNCHANGED <<context_size, context_file, utcnow>>

\* clear_context()
clear_context ==
  /\ SetContext(Context(<<>>, 0, compression_stats))
  /\ context_file' = <<Context(<<>>, 0, compression_stats)>>
  /\ context_last' = ContextCall("clear_context", FALSE, ThisContext, ThisContext)
  /\ UNCHANGED <<context_size, utcnow>>

(* --------------------------- TriggerMonitor ---------------------------- *)

\* TriggerMonitor.thresholds, the defaults
thresholds == [cpu_percent |-> 90, error_log_rate |-> 10]

\* _should_trigger's default debounce_seconds
DefaultDebounce == 300

\* the debounce_seconds _check_journal_logs passes for a pattern
PatternDebounce == 60

\* deque(maxlen=1000), scaled down
EventBufferMaxlen == 1

\* CRITICAL_PATTERNS, in their order: the patterns the journal messages in
\* use can match, each with the key it is debounced under ("pattern_" and
\* the first 20 characters of the pattern)
CRITICAL_PATTERNS ==
  <<[pattern |-> <<"segfault">>, severity |-> "high", key |-> "pattern_segfault"],
    [pattern |-> <<"Failed", "to", "start">>, severity |-> "high",
     key |-> "pattern_Failed to start"],
    [pattern |-> <<"FAILED">>, severity |-> "medium", key |-> "pattern_FAILED"]>>

\* the MESSAGE of a journal entry
MsgSegfault == <<"nginx", "segfault">>

MsgFailedToStart == <<"Failed", "to", "start", "nginx.service">>

\* re.search(pattern, message, re.IGNORECASE) for a pattern of plain text
re_search(pattern, message) ==
  IsSubstring(LowerChars(StrChars(pattern)), LowerChars(StrChars(message)))

\* the journal messages in use
JournalMessages == {MsgSegfault, MsgFailedToStart}

\* by message, the positions of the patterns re.search finds in it
Matched ==
  [message \in JournalMessages |->
     {k \in 1..Len(CRITICAL_PATTERNS) : re_search(CRITICAL_PATTERNS[k].pattern, message)}]

\* what one check_all finds on the host: psutil.cpu_percent, the state of
\* sshd, the messages of the new journal entries, and the number of journal
\* entries of priority err or worse
Observation(cpu_percent, status, matches, error_count) ==
  [cpu_percent |-> cpu_percent, status |-> status, matches |-> matches,
   error_count |-> error_count]

\* a quiet host, one breach at a time, and all of them at once
Observations ==
  {Observation(50, "active", <<>>, 0), Observation(91, "active", <<>>, 0),
   Observation(92, "active", <<>>, 0), Observation(50, "failed", <<>>, 0),
   Observation(50, "active", <<MsgSegfault, MsgSegfault>>, 0),
   Observation(50, "active", <<>>, 11),
   Observation(92, "failed", <<MsgSegfault, MsgFailedToStart>>, 11)}

\* a trigger event: the key it was debounced under, its type and severity,
\* the value it carries and the time it was made
Trigger(key, type, severity, value, timestamp) ==
  [key |-> key, type |-> type, severity |-> severity, value |-> value,
   timestamp |-> timestamp]

\* the monitor's debounce table with the key set to now
Stamp(times, trigger_key, now) ==
  [k \in DOMAIN times \cup {trigger_key} |-> IF k = trigger_key THEN now ELSE times[k]]

\* a faulty debounce: a suppressed breach restarts the window
ShouldTriggerSliding(times, trigger_key, debounce_seconds, now) ==
  [ok |-> trigger_key \notin DOMAIN times \/ now - times[trigger_key] >= debounce_seconds,
   times |-> Stamp(times, trigger_key, now)]

\* _should_trigger(trigger_key, debounce_seconds): the verdict and the table
\* after the call
_should_trigger(times, trigger_key, debounce_seconds, now) ==
  IF trigger_key \notin DOMAIN times
    THEN [ok |-> TRUE, times |-> Stamp(times, trigger_key, now)]
  ELSE IF now - times[trigger_key] >= debounce_seconds
    THEN [ok |-> TRUE, times |-> Stamp(times, trigger_key, now)]
  ELSE [ok |-> FALSE, times |-> times]

\* the table and the triggers collected so far by a check
Checked(times, triggers) == [times |-> times, triggers |-> triggers]

\* a breach of the key: the trigger is made if _should_trigger allows it
Breach(m, trigger, debounce_seconds, now) ==
  LET d == _should_trigger(m.times, trigger.key, debounce_seconds, now)
  IN  Checked(d.times, IF d.ok THEN Append(m.triggers, trigger) ELSE m.triggers)

\* _check_metrics: the CPU usage
_check_metrics(m, obs, now) ==
  IF obs.cpu_percent > thresholds.cpu_percent
    THEN Breach(m, Trigger("cpu_high", "metric_threshold", "medium", obs.cpu_percent, now),
                DefaultDebounce, now)
    ELSE m

\* _check_services: sshd
_check_services(m, obs, now) ==
  IF obs.status \notin {"active", "activating"}
    THEN Breach(m, Trigger("service_sshd_failed", "service_failure", "critical", 0, now),
                DefaultDebounce, now)
    ELSE m

\* _check_journal_logs: one entry against the patterns from the k-th on
RECURSIVE CheckEntry(_, _, _, _)
CheckEntry(m, message, k, now) ==
  IF k > Len(CRITICAL_PATTERNS) THEN m
  ELSE CheckEntry(IF k \in Matched[message]
                    THEN Breach(m, Trigger(CRITICAL_PATTERNS[k].key, "log_pattern",
                                           CRITICAL_PATTERNS[k].severity, 0, now),
                                PatternDebounce, now)
                    ELSE m,
                  message, k + 1, now)

\* _check_journal_logs: the entries, one by one
RECURSIVE CheckPatterns(_, _, _)
CheckPatterns(m, matches, now) ==
  IF matches = <<>> THEN m
  ELSE CheckPatterns(CheckEntry(m, matches[1], 1, now), Tail(matches), now)

\* _check_journal_logs: the patterns, then the error rate
_check_journal_logs(m, obs, now) ==
  LET p == CheckPatterns(m, obs.matches, now)
  IN  IF obs.error_count > thresholds.error_log_rate
        THEN Breach(p, Trigger("error_rate_high", "error_rate", "medium", obs.error_count,
                               now),
                    DefaultDebounce, now)
        ELSE p

\* the checks of check_all in their order
AllChecks(times, obs, now) ==
  _check_journal_logs(_check_services(_check_metrics(Checked(times, <<>>), obs, now),
                                      obs, now),
                      obs, now)

\* the last n elements of the sequence
LastN(seq, n) ==
  IF Len(seq) <= n THEN seq ELSE SubSeq(seq, Len(seq) - n + 1, Len(seq))

PatternKeys == {CRITICAL_PATTERNS[k].key : k \in 1..Len(CRITICAL_PATTERNS)}

TriggerKeys == {"cpu_high", "service_sshd_failed", "error_rate_high"} \cup PatternKeys

\* the keys the observation breaches
Breached(obs) ==
  {k \in TriggerKeys :
     \/ k = "cpu_high" /\ obs.cpu_percent > thresholds.cpu_percent
     \/ k = "service_sshd_failed" /\ obs.status \notin {"active", "activating"}
     \/ \E p \in 1..Len(CRITICAL_PATTERNS), e \in 1..Len(obs.matches) :
           /\ k = CRITICAL_PATTERNS[p].key
           /\ p \in Matched[obs.matches[e]]
     \/ k = "error_rate_high" /\ obs.error_count > thresholds.error_log_rate}

VARIABLES
  last_trigger_times,  \* TriggerMonitor.last_trigger_times
  event_buffer,        \* TriggerMonitor.event_buffer
  stats,               \* TriggerMonitor.stats: checks_performed, triggers_fired
  now_utc,             \* datetime.now(timezone.utc), in seconds
  check_last,          \* the last observation and what check_all returned for it
  last_event,          \* by key, the trigger last returned under that key
  suppressed           \* by key, the breaches not returned since then

trigVars ==
  <<last_trigger_times, event_buffer, stats, now_utc, check_last, last_event, suppressed>>

NoObservation == Observation(0, "active", <<>>, 0)

TriggerInit ==
  /\ last_trigger_times = <<>>
  /\ event_buffer = <<>>
  /\ stats = [checks_performed |-> 0, triggers_fired |-> 0]
  /\ now_utc = 0
  /\ check_last = [obs |-> NoObservation, triggers |-> <<>>]
  /\ last_event = <<>>
  /\ suppressed = [k \in TriggerKeys |-> 0]

\* check_all()
check_all(obs) ==
  LET m == AllChecks(last_trigger_times, obs, now_utc)
      keys == {m.triggers[i].key : i \in 1..Len(m.triggers)}
  IN  /\ last_trigger_times' = m.times
      /\ stats' = [checks_performed |-> stats.checks_performed + 1,
                   triggers_fired |-> stats.triggers_fired + Len(m.triggers)]
      /\ event_buffer' = LastN(event_buffer \o m.triggers, EventBufferMaxlen)
      /\ check_last' = [obs |-> obs, triggers |-> m.triggers]
      /\ last_event' =
           [k \in DOMAIN last_event \cup keys |->
              IF k \in keys
                THEN m.triggers[CHOOSE i \in 1..Len(m.triggers) : m.triggers[i].key = k]
                ELSE last_event[k]]
      /\ suppressed' =
           [k \in TriggerKeys |->
              IF k \in keys THEN 0
              ELSE IF k \in Breached(obs) THEN suppressed[k] + 1
              ELSE suppressed[k]]
      /\ UNCHANGED now_utc

(* ------------------------ should_trigger_review ------------------------ *)

\* sum(1 for t in triggers if t.get('severity') == severity)
RECURSIVE CountSeverity(_, _)
CountSeverity(triggers, severity) ==
  IF triggers = <<>> THEN 0
  ELSE (IF triggers[1].severity = severity THEN 1 ELSE 0)
         + CountSeverity(Tail(triggers), severity)

\* a faulty verdict: two medium events are enough
ReviewOnTwoMedium(triggers) ==
  \/ CountSeverity(triggers, "critical") > 0
  \/ CountSeverity(triggers, "high") >= 2
  \/ CountSeverity(triggers, "medium") >= 2

\* should_trigger_review(triggers)
should_trigger_review(triggers) ==
  IF triggers = <<>> THEN FALSE
  ELSE IF CountSeverity(triggers, "critical") > 0 THEN TRUE
  ELSE IF CountSeverity(triggers, "high") >= 2 THEN TRUE
  ELSE IF CountSeverity(triggers, "medium") >= 3 THEN TRUE
  ELSE FALSE

VARIABLES
  review_batch,    \* the triggers handed to should_trigger_review
  review_called,   \* should_trigger_review has returned
  review_verdict   \* what it returned

reviewVars == <<review_batch, review_called, review_verdict>>

ReviewIdle ==
  /\ review_batch = <<>>
  /\ review_called = FALSE
  /\ review_verdict = FALSE

(* ---------------------------- NewOrchestrator -------------------------- *)

\* NewOrchestrator.__init__'s defaults, in seconds
trigger_interval == 30

review_interval == 60

\* what check_all finds in a cycle of the orchestrator
LayerObservations ==
  {Observation(50, "active", <<>>, 0), Observation(91, "active", <<>>, 0),
   Observation(50, "failed", <<>>, 0)}

\* the trigger dictionaries as events of the context layer: the CPU breach
\* with its message "CPU usage 91.0% exceeds threshold 90.0%" and the failure
\* of sshd with "Critical service sshd is failed"
CpuTrigger == Event("metric_threshold", 16, 215, 8, 4, 39)

SshdFailed == Event("service_failure", 15, 219, 4, 6, 31)

TriggerEvent(trigger) ==
  CASE trigger.type = "metric_threshold" -> CpuTrigger
    [] trigger.type = "service_failure" -> SshdFailed

TriggerEvents(triggers) == [i \in 1..Len(triggers) |-> TriggerEvent(triggers[i])]

\* {"type": "review_completed", "summary": "Review completed", "status":
\* "normal", "issues_found": 0}
ReviewDone == Event("review_completed", 16, 98, 0, 0, 0)

\* {"type": "meta_analysis", "escalation_reason": "Complex issue detected",
\* "response_length": 40, "summary": <the response>}
MetaAnalysis == Event("meta_analysis", 13, 150, 0, 0, 0)

\* what the review model answers: nothing, text without JSON, or JSON with
\* or without should_escalate (and no safe actions)
ReviewAnswers == {"none", "text", "healthy", "escalate"}

\* _parse_analysis, then review_system_state's reading of should_escalate
escalation_recommended(answer) == answer = "escalate"

\* review_system_state: the context after it, and its result
review_system_state(c, answer, size, now) ==
  IF answer = "none"
    THEN [context |-> c, status |-> "error", escalation_recommended |-> FALSE]
    ELSE [context |-> AddEvent(c, ReviewDone, "review", size, now),
          status |-> IF answer = "text" THEN "unknown" ELSE "normal",
          escalation_recommended |-> escalation_recommended(answer)]

\* the parameters of MetaModel._query_ollama after self, and the call of
\* _run_layer4: one positional argument and the keyword model
QueryOllamaParams == <<"prompt", "temperature">>

Layer4Call == [positional |-> 1, keywords |-> {"model"}]

\* Python binds the call to the parameters: no more positional arguments
\* than parameters, every keyword a parameter not yet bound by position
Binds(params, call) ==
  /\ call.positional <= Len(params)
  /\ \A kw \in call.keywords :
        \E i \in (call.positional + 1)..Len(params) : params[i] = kw

\* what the backend answers to the meta model's query
MetaResponses == {"", "analysis"}

\* _run_layer4: the context after it, the queries that reached the meta
\* model's backend and whether the meta_analysis event was admitted
_run_layer4(c, response, size, now) ==
  IF ~Binds(QueryOllamaParams, Layer4Call)
    THEN [context |-> c, queries |-> 0, admitted |-> FALSE]
  ELSE IF response = ""
    THEN [context |-> c, queries |-> 1, admitted |-> FALSE]
  ELSE [context |-> AddEvent(c, MetaAnalysis, "meta", size, now), queries |-> 1,
        admitted |-> TRUE]

VARIABLES
  last_trigger_check,  \* NewOrchestrator.last_trigger_check
  last_review_check,   \* NewOrchestrator.last_review_check
  layer_cycle_count,   \* NewOrchestrator.cycle_count
  meta_model_made,     \* NewOrchestrator.meta_model is not None
  restarts,            \* the number of shutdowns followed by a start
  layer_result         \* what the last run_cycle did

layerVars ==
  <<last_trigger_check, last_review_check, layer_cycle_count, meta_model_made, restarts,
    layer_result>>

\* errors_in_a_row counts the review runs that ended with status error
\* since the last one that did not
LayerResult(cycle, layer1_ran, verdict, layer3_ran, escalate, layer4_calls, queries,
            admitted, errors_in_a_row) ==
  [cycle |-> cycle, layer1_ran |-> layer1_ran, verdict |-> verdict,
   layer3_ran |-> layer3_ran, escalation_recommended |-> escalate,
   layer4_calls |-> layer4_calls, meta_queries |-> queries, meta_admitted |-> admitted,
   errors_in_a_row |-> errors_in_a_row]

\* the checks start at 0 while time.time() is far beyond both intervals; on
\* the model's clock, which starts at 0, that is one review interval back
LayerInit ==
  /\ last_trigger_check = 0 - review_interval
  /\ last_review_check = 0 - review_interval
  /\ layer_cycle_count = 0
  /\ meta_model_made = FALSE
  /\ restarts = 0
  /\ layer_result = LayerResult(0, FALSE, FALSE, FALSE, FALSE, 0, 0, FALSE, 0)

\* run_cycle(): Layer 1 if its interval has elapsed, with the triggers
\* admitted to the context; Layer 3 if its interval has elapsed; Layer 4 if
\* the review recommends it
run_cycle(obs, answer, response) ==
  LET now == now_utc
      layer1 == now - last_trigger_check >= trigger_interval
      layer3 == now - last_review_check >= review_interval
      triggers == AllChecks(last_trigger_times, obs, now_utc).triggers
      c1 == IF layer1 /\ triggers # <<>>
              THEN AddEvents(ThisContext, TriggerEvents(triggers), "trigger", context_size,
                             utcnow)
              ELSE ThisContext
      review == review_system_state(c1, answer, context_size, utcnow)
      layer4 == layer3 /\ review.escalation_recommended
      meta == _run_layer4(review.context, response, context_size, utcnow)
      c3 == IF layer4 THEN meta.context ELSE IF layer3 THEN review.context ELSE c1
  IN  /\ layer_cycle_count' = layer_cycle_count + 1
      /\ IF layer1 THEN check_all(obs) ELSE UNCHANGED trigVars
      /\ last_trigger_check' = IF layer1 THEN now ELSE last_trigger_check
      /\ last_review_check' = IF layer3 THEN now ELSE last_review_check
      /\ meta_model_made' = (meta_model_made \/ layer4)
      /\ SetContext(c3)
      /\ context_last' = ContextCall("run_cycle", FALSE, ThisContext, ThisContext)
      /\ layer_result' =
           LayerResult(layer_cycle_count + 1, layer1,
                       layer1 /\ should_trigger_review(triggers), layer3,
                       layer3 /\ review.escalation_recommended,
                       IF layer4 THEN 1 ELSE 0,
                       IF layer4 THEN meta.queries ELSE 0,
                       layer4 /\ meta.admitted,
                       IF ~layer3 THEN layer_result.errors_in_a_row
                       ELSE IF review.status = "error"
                         THEN layer_result.errors_in_a_row + 1
                       ELSE 0)
      /\ UNCHANGED <<context_size, context_file, utcnow, context_ops, restarts>>

\* SIGTERM or SIGINT: _signal_handler clears running, run_continuous leaves
\* its loop and logs that it stopped; then the service starts again on the
\* same state directory, with a new monitor and a new manager that loads
\* the context file
stop_and_start ==
  /\ restarts' = restarts + 1
  /\ _load_context
  /\ context_ops' = context_ops
  /\ last_trigger_times' = <<>>
  /\ event_buffer' = <<>>
  /\ stats' = [checks_performed |-> 0, triggers_fired |-> 0]
  /\ check_last' = [obs |-> NoObservation, triggers |-> <<>>]
  /\ last_event' = <<>>
  /\ suppressed' = [k \in TriggerKeys |-> 0]
  /\ last_trigger_check' = now_utc - review_interval
  /\ last_review_check' = now_utc - review_interval
  /\ layer_cycle_count' = 0
  /\ meta_model_made' = FALSE
  /\ layer_result' = LayerResult(0, FALSE, FALSE, FALSE, FALSE, 0, 0, FALSE, 0)
  /\ UNCHANGED now_utc

(* ------------------------------ OllamaQueue --------------------------- *)

\* Priority
INTERACTIVE == 0

AUTONOMOUS == 1

Priorities == {INTERACTIVE, AUTONOMOUS}

\* the processes that query the backend, each through its own MetaModel
Callers == {"first", "second"}

\* a request id, "<microseconds>_<priority>", as the pair it is split into
RequestId(microseconds, priority) == <<microseconds, priority>>

\* the file of a request in one of the directories
RequestFile(priority, status, result) ==
  [priority |-> priority, status |-> status, result |-> result]

\* a directory without the file
Unlink(dir, id) == [i \in DOMAIN dir \ {id} |-> dir[i]]

\* a directory with the file written
WriteText(dir, id, file) == [i \in DOMAIN dir \cup {id} |-> IF i = id THEN file ELSE dir[i]]

\* the sort key of _process_next_request: priority, then timestamp
KeyBefore(a, b) == a[2] < b[2] \/ (a[2] = b[2] /\ a[1] <= b[1])

\* a faulty choice: the oldest pending request whatever its priority
OldestRequest(dir) == CHOOSE id \in DOMAIN dir : \A other \in DOMAIN dir : id[1] <= other[1]

\* sorted(pending, key=(priority, timestamp))[0]
next_request(dir) == CHOOSE id \in DOMAIN dir : \A other \in DOMAIN dir : KeyBefore(id, other)

VARIABLES
  pending_dir,      \* queue/pending: by request id, the file
  processing_dir,   \* queue/processing
  completed_dir,    \* queue/completed
  failed_dir,       \* queue/failed
  microseconds,     \* int(time.time() * 1000000), counted from the start
  worker_pc,        \* where the worker stands in _process_next_request
  worker_request,   \* the request the worker has picked
  caller_pc,        \* where each caller stands in _query_ollama
  caller_priority,  \* its MetaModel's priority_level
  caller_request,   \* the id submit() made for it
  caller_result,    \* what its last _query_ollama returned
  queue_calls,      \* the number of _query_ollama calls begun
  written_before,   \* by request id, the requests in the queue when submit() began
  picked,           \* the request ids in the order the worker picked them
  finished          \* the request ids in the order they were completed or failed

queueVars ==
  <<pending_dir, processing_dir, completed_dir, failed_dir, microseconds, worker_pc,
    worker_request, caller_pc, caller_priority, caller_request, caller_result, queue_calls,
    written_before, picked, finished>>

NoRequest == RequestId(0, 0)

QueueIdle ==
  /\ pending_dir = <<>>
  /\ processing_dir = <<>>
  /\ completed_dir = <<>>
  /\ failed_dir = <<>>
  /\ microseconds = 1
  /\ worker_pc = "idle"
  /\ worker_request = NoRequest
  /\ caller_pc = [c \in Callers |-> "idle"]
  /\ caller_request = [c \in Callers |-> NoRequest]
  /\ caller_result = [c \in Callers |-> "none"]
  /\ queue_calls = 0
  /\ written_before = <<>>
  /\ picked = <<>>
  /\ finished = <<>>

\* every MetaModel with the default priority
QueueInit ==
  /\ QueueIdle
  /\ caller_priority = [c \in Callers |-> INTERACTIVE]

\* the requests that have a file in some directory
Written ==
  DOMAIN pending_dir \cup DOMAIN processing_dir \cup DOMAIN completed_dir
    \cup DOMAIN failed_dir

\* get_status(request_id)["status"]
get_status(id) ==
  IF id \in DOMAIN pending_dir THEN "pending"
  ELSE IF id \in DOMAIN processing_dir THEN "processing"
  ELSE IF id \in DOMAIN completed_dir THEN "completed"
  ELSE IF id \in DOMAIN failed_dir THEN "failed"
  ELSE "not_found"

\* has_pending_with_priority(priority)
has_pending_with_priority(priority) ==
  \/ \E id \in DOMAIN pending_dir : pending_dir[id].priority = priority
  \/ \E id \in DOMAIN processing_dir : processing_dir[id].priority = priority

workerVars == <<worker_pc, worker_request, picked, finished>>

callerVars ==
  <<caller_pc, caller_priority, caller_request, caller_result, queue_calls, written_before,
    microseconds>>

\* _process_next_request: the first of the sorted pending files is read and
\* written to processing/
PickRequest ==
  /\ worker_pc = "idle"
  /\ DOMAIN pending_dir # {}
  /\ LET id == next_request(pending_dir)
     IN  /\ processing_dir' =
              WriteText(processing_dir, id,
                        [pending_dir[id] EXCEPT !.status = "processing"])
         /\ worker_request' = id
         /\ picked' = Append(picked, id)
  /\ worker_pc' = "picked"
  /\ UNCHANGED <<pending_dir, completed_dir, failed_dir, finished, callerVars>>

\* _process_next_request: next_request.unlink(), and the client is called
UnlinkPending ==
  /\ worker_pc = "picked"
  /\ pending_dir' = Unlink(pending_dir, worker_request)
  /\ worker_pc' = "generating"
  /\ UNCHANGED <<processing_dir, completed_dir, failed_dir, worker_request, picked,
                 finished, callerVars>>

\* a faulty worker: a request whose client call raises gets no file in
\* failed/
FinishDroppingFailures(ok) ==
  /\ worker_pc = "generating"
  /\ LET file == processing_dir[worker_request]
     IN  IF ok
           THEN /\ completed_dir' =
                     WriteText(completed_dir, worker_request,
                               [file EXCEPT !.status = "completed", !.result = "response"])
                /\ UNCHANGED failed_dir
           ELSE UNCHANGED <<completed_dir, failed_dir>>
  /\ finished' = Append(finished, worker_request)
  /\ worker_pc' = "finished"
  /\ UNCHANGED <<pending_dir, processing_dir, worker_request, picked, callerVars>>

\* _process_next_request: the client returns or raises, and the file is
\* written to completed/ or failed/
FinishRequest(ok) ==
  /\ worker_pc = "generating"
  /\ LET file == processing_dir[worker_request]
     IN  IF ok
           THEN /\ completed_dir' =
                     WriteText(completed_dir, worker_request,
                               [file EXCEPT !.status = "completed", !.result = "response"])
                /\ UNCHANGED failed_dir
           ELSE /\ failed_dir' =
                     WriteText(failed_dir, worker_request,
                               [file EXCEPT !.status = "failed", !.result = "error"])
                /\ UNCHANGED completed_dir
  /\ finished' = Append(finished, worker_request)
  /\ worker_pc' = "finished"
  /\ UNCHANGED <<pending_dir, processing_dir, worker_request, picked, callerVars>>

\* _process_next_request: processing_file.unlink()
UnlinkProcessing ==
  /\ worker_pc = "finished"
  /\ processing_dir' = Unlink(processing_dir, worker_request)
  /\ worker_pc' = "idle"
  /\ UNCHANGED <<pending_dir, completed_dir, failed_dir, worker_request, picked, finished,
                 callerVars>>

\* _query_ollama begins: an AUTONOMOUS caller returns at once if
\* has_pending_with_priority, any other goes on to submit
BeginQuery(c) ==
  /\ caller_pc[c] \in {"idle", "returned"}
  /\ queue_calls' = queue_calls + 1
  /\ IF caller_priority[c] = AUTONOMOUS /\ has_pending_with_priority(caller_priority[c])
       THEN /\ caller_pc' = [caller_pc EXCEPT ![c] = "returned"]
            /\ caller_result' = [caller_result EXCEPT ![c] = "skipped"]
       ELSE /\ caller_pc' = [caller_pc EXCEPT ![c] = "checked"]
            /\ caller_result' = [caller_result EXCEPT ![c] = "none"]
  /\ UNCHANGED <<pending_dir, processing_dir, completed_dir, failed_dir, caller_priority,
                 caller_request, written_before, microseconds, workerVars>>

\* submit(): the request id is made from the clock and the priority
SubmitId(c) ==
  /\ caller_pc[c] = "checked"
  /\ LET id == RequestId(microseconds, caller_priority[c])
     IN  /\ caller_request' = [caller_request EXCEPT ![c] = id]
         /\ written_before' =
              [i \in DOMAIN written_before \cup {id} |->
                 IF i = id THEN Written ELSE written_before[i]]
  /\ microseconds' = microseconds + 1
  /\ caller_pc' = [caller_pc EXCEPT ![c] = "submitting"]
  /\ UNCHANGED <<pending_dir, processing_dir, completed_dir, failed_dir, caller_priority,
                 caller_result, queue_calls, workerVars>>

\* submit(): the file is written to pending/
SubmitWrite(c) ==
  /\ caller_pc[c] = "submitting"
  /\ pending_dir' =
       WriteText(pending_dir, caller_request[c],
                 RequestFile(caller_priority[c], "pending", "none"))
  /\ caller_pc' = [caller_pc EXCEPT ![c] = "waiting"]
  /\ UNCHANGED <<processing_dir, completed_dir, failed_dir, caller_priority,
                 caller_request, caller_result, queue_calls, written_before, microseconds,
                 workerVars>>

\* wait_for_result: the request is completed and its result is returned
WaitReturns(c) ==
  /\ caller_pc[c] = "waiting"
  /\ get_status(caller_request[c]) = "completed"
  /\ caller_pc' = [caller_pc EXCEPT ![c] = "returned"]
  /\ caller_result' = [caller_result EXCEPT ![c] = completed_dir[caller_request[c]].result]
  /\ UNCHANGED <<pending_dir, processing_dir, completed_dir, failed_dir, caller_priority,
                 caller_request, queue_calls, written_before, microseconds, workerVars>>

\* wait_for_result raises, because the request failed or the timeout has
\* passed, and _query_ollama posts the query to the backend itself
WaitRaises(c) ==
  /\ caller_pc[c] = "waiting"
  /\ get_status(caller_request[c]) # "completed"
  /\ caller_pc' = [caller_pc EXCEPT ![c] = "direct"]
  /\ UNCHANGED <<pending_dir, processing_dir, completed_dir, failed_dir, caller_priority,
                 caller_request, caller_result, queue_calls, written_before, microseconds,
                 workerVars>>

\* the direct query returns or fails, and _query_ollama returns the text
\* or the error record
DirectReturns(c, ok) ==
  /\ caller_pc[c] = "direct"
  /\ caller_pc' = [caller_pc EXCEPT ![c] = "returned"]
  /\ caller_result' = [caller_result EXCEPT ![c] = IF ok THEN "response" ELSE "error"]
  /\ UNCHANGED <<pending_dir, processing_dir, completed_dir, failed_dir, caller_priority,
                 caller_request, queue_calls, written_before, microseconds, workerVars>>

(* ------------------------ the tool-calling loop ------------------------ *)

\* _query_ollama_with_tools' max_iterations (30 by default), scaled down
max_iterations == 3

\* how the MetaModel was constructed and what the history holds: whether
\* tools are enabled, whether the queue is used, whether the priority is
\* AUTONOMOUS, and whether the messages hold one of the user
ToolConfigs ==
  [enable_tools : BOOLEAN, use_queue : BOOLEAN, autonomous : BOOLEAN, has_user : BOOLEAN]

\* what the queue does with the request of one iteration: the caller is
\* told that an AUTONOMOUS request is there already, the worker's result
\* comes back, or the wait raises
QueueOutcomes == {"skipped", "result", "raised"}

\* what the backend answers to a chat request: a message with tool calls,
\* a message without, an HTTP error that names the context length, another
\* HTTP error, or anything that raises another exception
BackendAnswers == {"tool_calls", "final", "context_length", "http_error", "exception"}

\* the tool calls of one message by what their results are: below 5000
\* characters, up to 8000, in two chunks, or a call that cannot be read
ToolBatches == {<<"small">>, <<"medium">>, <<"chunked", "small">>, <<"malformed">>}

\* _process_tool_result_hierarchical: the queries _extract_key_findings
\* sends for a result
SummaryQueries(size) ==
  CASE size = "small" -> 0
    [] size = "medium" -> 1
    [] size = "chunked" -> 2
    [] OTHER -> 0

RECURSIVE SumSummaryQueries(_)
SumSummaryQueries(tools) ==
  IF tools = <<>> \/ tools[1] = "malformed" THEN 0
  ELSE SummaryQueries(tools[1]) + SumSummaryQueries(Tail(tools))

IsMalformed(tools) == \E i \in 1..Len(tools) : tools[i] = "malformed"

\* what one pass of the loop did: the requests it submitted to the queue,
\* the chat requests it posted itself, the summary queries, and how it
\* ended: "continue" or what was returned
Pass(queued, posted, summaries, outcome) ==
  [queued |-> queued, posted |-> posted, summaries |-> summaries, outcome |-> outcome]

\* a faulty loop body: an exception that is no HTTP error leaves the loop
AfterAnswerUncaught(answer, tools, has_user) ==
  CASE answer = "final" -> [summaries |-> 0, outcome |-> "text"]
    [] answer = "tool_calls" ->
         [summaries |-> SumSummaryQueries(tools),
          outcome |-> IF IsMalformed(tools) THEN "raised" ELSE "continue"]
    [] answer = "context_length" ->
         [summaries |-> 0, outcome |-> IF has_user THEN "continue" ELSE "error_record"]
    [] answer = "http_error" -> [summaries |-> 0, outcome |-> "error_record"]
    [] answer = "exception" -> [summaries |-> 0, outcome |-> "raised"]

\* the loop body from the answer on: the text is returned, the tools are
\* executed, the history is cut down and the request tried again, or the
\* error record is returned
AfterAnswer(answer, tools, has_user) ==
  CASE answer = "final" -> [summaries |-> 0, outcome |-> "text"]
    [] answer = "tool_calls" ->
         [summaries |-> SumSummaryQueries(tools),
          outcome |-> IF IsMalformed(tools) THEN "error_record" ELSE "continue"]
    [] answer = "context_length" ->
         [summaries |-> 0, outcome |-> IF has_user THEN "continue" ELSE "error_record"]
    [] answer = "http_error" -> [summaries |-> 0, outcome |-> "error_record"]
    [] answer = "exception" -> [summaries |-> 0, outcome |-> "error_record"]

\* one pass of the loop of _query_ollama_with_tools
LoopPass(config, queue_outcome, answer, tools) ==
  IF config.use_queue /\ config.autonomous /\ queue_outcome = "skipped"
    THEN Pass(0, 0, 0, "skipped")
  ELSE LET rest == AfterAnswer(answer, tools, config.has_user)
       IN  Pass(IF config.use_queue THEN 1 ELSE 0,
                IF config.use_queue /\ queue_outcome = "result" THEN 0 ELSE 1,
                rest.summaries, rest.outcome)

\* _query_ollama, as the loop's stand-in when tools are disabled
QueryWithoutTools(config, queue_outcome, answer) ==
  IF config.use_queue /\ config.autonomous /\ queue_outcome = "skipped"
    THEN Pass(0, 0, 0, "skipped")
  ELSE Pass(IF config.use_queue THEN 1 ELSE 0,
            IF config.use_queue /\ queue_outcome = "result" THEN 0 ELSE 1,
            0, IF answer = "final" THEN "text" ELSE "error_record")

VARIABLES
  tool_config,    \* the MetaModel and the history of the call
  tool_pc,        \* "idle", "running" or "returned"
  iteration,      \* the passes of the loop made so far
  dispatches,     \* the requests made so far: queued, posted, summaries
  tool_return,    \* what _query_ollama_with_tools returned
  emergency_resets \* the emergency context resets since the last pass without one

toolVars == <<tool_config, tool_pc, iteration, dispatches, tool_return, emergency_resets>>

ToolIdle ==
  /\ tool_config = [enable_tools |-> TRUE, use_queue |-> TRUE, autonomous |-> FALSE,
                    has_user |-> TRUE]
  /\ tool_pc = "idle"
  /\ iteration = 0
  /\ dispatches = [queued |-> 0, posted |-> 0, summaries |-> 0]
  /\ tool_return = "none"
  /\ emergency_resets = 0

Dispatched(p) ==
  [queued |-> dispatches.queued + p.queued, posted |-> dispatches.posted + p.posted,
   summaries |-> dispatches.summaries + p.summaries]

\* the answers that can come with the outcome of the queue: an HTTP error
\* is raised by the loop's own post only
Answers(config, queue_outcome) ==
  IF config.use_queue /\ queue_outcome = "result"
    THEN {"tool_calls", "final", "exception"}
    ELSE BackendAnswers

\* one pass of the loop; after the last one the iteration-limit message is
\* returned
loop_pass(queue_outcome, answer, tools) ==
  LET p == LoopPass(tool_config, queue_outcome, answer, tools)
  IN  /\ tool_pc = "running"
      /\ tool_config.enable_tools
      /\ answer \in Answers(tool_config, queue_outcome)
      /\ iteration' = iteration + 1
      /\ dispatches' = Dispatched(p)
      /\ emergency_resets' =
           IF p.outcome = "continue" /\ answer = "context_length"
             THEN emergency_resets + 1
             ELSE 0
      /\ IF p.outcome # "continue"
           THEN /\ tool_pc' = "returned"
                /\ tool_return' = p.outcome
           ELSE IF iteration + 1 >= max_iterations
             THEN /\ tool_pc' = "returned"
                  /\ tool_return' = "limit"
             ELSE UNCHANGED <<tool_pc, tool_return>>
      /\ UNCHANGED tool_config

\* tools are disabled: the user's messages go to _query_ollama
query_without_tools(queue_outcome, answer) ==
  LET p == QueryWithoutTools(tool_config, queue_outcome, answer)
  IN  /\ tool_pc = "running"
      /\ ~tool_config.enable_tools
      /\ dispatches' = Dispatched(p)
      /\ tool_pc' = "returned"
      /\ tool_return' = p.outcome
      /\ UNCHANGED <<tool_config, iteration, emergency_resets>>

(* ------------------- ReviewModel's safe actions ------------------------ *)

\* the list in _is_safe_action
safe_action_types == {"investigation", "restart_service", "cleanup"}

\* an entry of the review result's safe_actions; keys lists the keys it has
ReviewAction(keys, action_type, risk, target, description) ==
  [keys |-> keys, action_type |-> action_type, risk |-> risk, target |-> target,
   description |-> description]

ReviewActionKeys == {"action_type", "risk", "target", "description"}

\* what the review model proposes: every safe type and two others, at two
\* risks, and an investigation without a risk
ReviewActions ==
  {ReviewAction(ReviewActionKeys, t, r, "nginx",
                IF t = "cleanup" THEN <<"cleanup", "logs">> ELSE <<"check", "nginx">>)
     : t \in safe_action_types \cup {"systemd_restart", "nix_rebuild"},
       r \in {"low", "medium"}}
  \cup {ReviewAction(ReviewActionKeys \ {"risk"}, "investigation", "", "nginx",
                     <<"check", "nginx">>)}

_is_safe_action(action) ==
  LET action_type == Get(action, "action_type", "")
      risk == Get(action, "risk", "high")
  IN  IF risk # "low" THEN FALSE ELSE action_type \in safe_action_types

_generate_commands(action) ==
  LET action_type == Get(action, "action_type", "None")
      target == Get(action, "target", "")
  IN  CASE action_type = "restart_service" -> <<<<"systemctl", "restart", target>>>>
        [] action_type = "investigation" ->
             <<<<"systemctl", "status", target>>, <<"journalctl", "-u", target, "-n", "50">>>>
        [] action_type = "cleanup" ->
             <<<<"journalctl", "--vacuum-time=7d">>,
               <<"nix-collect-garbage", "--delete-old">>>>
        [] OTHER -> <<>>

\* the executor_action dict of _execute_safe_action
ExecutorAction(action) ==
  Proposal({"action_type", "proposed_action", "target", "risk_level", "commands"},
           Get(action, "action_type", "None"), "low", _generate_commands(action), <<>>,
           Get(action, "description", <<>>), "")

\* {"type": "action_executed", "action": <the action>, "result": <status>,
\* "success": <bool>}
ActionExecuted == Event("action_executed", 15, 180, 0, 0, 0)

VARIABLES
  actions_executed,  \* ReviewModel.stats['actions_executed']
  safe_last          \* the safe_actions entry the review loop handled last

safeVars == <<actions_executed, safe_last>>

NoReviewAction == ReviewAction({}, "", "", "", <<>>)

SafeInit ==
  /\ actions_executed = 0
  /\ safe_last = [action |-> NoReviewAction, safe |-> FALSE]

\* _execute_safe_action(action): count it, hand it to the executor with an
\* empty monitoring context, and admit the outcome to the context
_execute_safe_action(action) ==
  /\ actions_executed' = actions_executed + 1
  /\ execute_action(ExecutorAction(action), "empty")
  /\ add_event(ActionExecuted, "review")

\* one pass of review_system_state's loop over safe_actions
review_safe_action(action) ==
  /\ safe_last' = [action |-> action, safe |-> _is_safe_action(action)]
  /\ IF _is_safe_action(action)
       THEN _execute_safe_action(action)
       ELSE UNCHANGED <<actions_executed, execVars, context_entries, current_token_count,
                        compression_stats, context_last, context_size, context_file,
                        utcnow>>

(* ------------------ ContextManager.validate_context_size -------------- *)

\* int(model_context_size * 0.75)
recommended_max(model_context_size) == (model_context_size * 3) \div 4

\* the budget after validate_context_size(model_context_size), and what it
\* returns
ValidatedSize(size, model_context_size) ==
  IF size > model_context_size
    THEN [context_size |-> model_context_size, valid |-> FALSE]
  ELSE IF size > recommended_max(model_context_size)
    THEN [context_size |-> size, valid |-> FALSE]
  ELSE [context_size |-> size, valid |-> TRUE]

VARIABLES
  model_capacity,  \* the argument of the last validate_context_size, 0 before it
  validated        \* what it returned: "none" before the call

validateVars == <<model_capacity, validated>>

ValidateInit ==
  /\ model_capacity = 0
  /\ validated = "none"

validate_context_size(model_context_size) ==
  LET v == ValidatedSize(context_size, model_context_size)
  IN  /\ context_size' = v.context_size
      /\ model_capacity' = model_context_size
      /\ validated' = IF v.valid THEN "True" ELSE "False"
      /\ UNCHANGED <<context_entries, current_token_count, compression_stats, context_file,
                     utcnow, context_ops, context_last>>

(* ------------------------ the tool-output cache ----------------------- *)

\* the clock of the cache's writers ticks this many times a second
TicksPerSecond == 2

\* datetime.now().strftime('%Y%m%d_%H%M%S'): the time cut to whole seconds
strftime(now) == now \div TicksPerSecond

\* f"{tool_name}_{...}"
cache_id(tool_name, now) == <<tool_name, strftime(now)>>

\* the file the output goes to: in cache_dir, or in the temporary directory
\* under the name macha_<id> when cache_dir cannot be written
cache_file(id, writable) ==
  IF writable THEN <<"cache_dir", id>> ELSE <<"tempdir", id>>

\* Path.write_text: the file holds the text, whatever it held before
WriteCache(files, file, raw_output) ==
  [f \in DOMAIN files \cup {file} |-> IF f = file THEN raw_output ELSE files[f]]

VARIABLES
  tool_cache,    \* the cache files, by directory and cache id
  cache_now,     \* datetime.now(), in ticks
  cache_writes   \* the outputs written so far, with the ids they were given

cacheVars == <<tool_cache, cache_now, cache_writes>>

CacheInit ==
  /\ tool_cache = <<>>
  /\ cache_now = 0
  /\ cache_writes = <<>>

\* _extract_key_findings(tool_name, raw_output), up to the summary: the full
\* output is stored under the cache id that the summary will name
_extract_key_findings(tool_name, raw_output, writable) ==
  LET id == cache_id(tool_name, cache_now)
      file == cache_file(id, writable)
  IN  /\ tool_cache' = WriteCache(tool_cache, file, raw_output)
      /\ cache_writes' =
           Append(cache_writes, [cache_id |-> id, file |-> file, output |-> raw_output])
      /\ UNCHANGED cache_now

(* ------------------------ the worker's process ------------------------ *)

VARIABLES
  worker_kills  \* how often the worker was killed and started again

killVars == <<worker_kills>>

KillInit == worker_kills = 0

\* the worker's process is killed inside _process_next_request and started
\* again: main() makes a new OllamaQueue on the same directories, cleans
\* completed/ and failed/ of old files and calls start_worker, which looks
\* at pending/ only
kill_and_restart ==
  /\ worker_pc # "idle"
  /\ worker_kills' = worker_kills + 1
  /\ worker_pc' = "idle"
  /\ worker_request' = NoRequest
  /\ UNCHANGED <<pending_dir, processing_dir, completed_dir, failed_dir, picked, finished,
                 callerVars>>

\* the state of the subsystems modelled last
lateVars == <<safeVars, validateVars, cacheVars, killVars>>

LateInit ==
  /\ SafeInit
  /\ ValidateInit
  /\ CacheInit
  /\ KillInit

\* the state of the subsystems modelled after the first four
moreVars == <<layerVars, queueVars, toolVars, lateVars>>

MoreInit ==
  /\ LayerInit
  /\ QueueInit
  /\ ToolIdle
  /\ LateInit

(* --------------------------- specifications --------------------------- *)

\* the state of the subsystems a specification of another subsystem leaves alone
apartVars == <<cycleVars, ctxVars, trigVars, reviewVars, moreVars>>

vars == <<execVars, issueVars, apartVars>>

\* the executor's state but for the clock
execRest ==
  <<autonomy_level, dry_run, has_agent, approval_queue, action_log, approved_actions,
    host_calls, patch_files, learned, op_pc, op_index, op_queue, op_result, last>>

\* the executor as MachaOrchestrator constructs it: any autonomy level, the
\* agent set, dry_run left at its default; and an empty tracker
\* the subsystems apart, as constructed
ApartInit ==
  /\ CycleInit
  /\ ContextInit
  /\ context_size = 150
  /\ TriggerInit
  /\ ReviewIdle
  /\ MoreInit

Init ==
  /\ ExecInit
  /\ ~dry_run
  /\ has_agent
  /\ IssueInit
  /\ ApartInit

\* the executor under any construction
GateInit ==
  /\ ExecInit
  /\ IssueInit
  /\ ApartInit

ExecuteAction ==
  /\ clock < MaxClock
  /\ \E action \in Proposals, ctx \in MonitoringContexts : execute_action(action, ctx)
  /\ UNCHANGED <<issueVars, apartVars>>

ExecuteGateAction ==
  /\ clock < MaxGateCalls
  /\ clock < MaxClock
  /\ \E action \in AllGateProposals, ctx \in MonitoringContexts :
        execute_action(action, ctx)
  /\ UNCHANGED <<issueVars, apartVars>>

ApproveAction ==
  /\ \/ clock < MaxClock /\ \E index \in Indices : ApproveBegin(index)
     \/ ApproveExecute
     \/ ApproveArchive
     \/ ApproveRemove
  /\ UNCHANGED <<issueVars, apartVars>>

RejectAction ==
  /\ clock < MaxClock
  /\ \E index \in Indices : reject_action(index)
  /\ UNCHANGED <<issueVars, apartVars>>

Next ==
  \/ ExecuteAction
  \/ ApproveAction
  \/ RejectAction

Spec == Init /\ [][Next]_vars

GateNext ==
  \/ ExecuteGateAction
  \/ ApproveAction
  \/ RejectAction

GateSpec == GateInit /\ [][GateNext]_vars

IssueIds == 1..MaxIssues

Severities == {"warning"}

\* the investigation and action dicts a caller may pass to update_issue
Notes == {<<ActionNote(NoAction, NoResult)>>}

\* the proposals the orchestrator links to an issue
LinkProposals ==
  InvestigationProposals \cup {p \in SimilarProposals : "diagnosis" \notin p.keys}

\* the host on which every command succeeds, and the one on which every
\* command fails
LinkEnvs(fix_proposal) ==
  {env \in HostEnvs(fix_proposal) :
     \E o \in {"ok", "fail"} : \A k \in DOMAIN env : env[k] = o}

\* what execute_action may have returned for the proposal: queued, or run
ExecutionResults(fix_proposal) ==
  {GateResult("queued_for_approval", "Autonomy level: suggest")}
    \cup {ImplResult(fix_proposal, clock, Dispatch(fix_proposal, clock, env)) :
            env \in LinkEnvs(fix_proposal)}

CreateIssue ==
  /\ clock < MaxIssueOps
  /\ next_issue <= MaxIssues
  /\ \E hostname \in Hostnames, description \in Descriptions, severity \in Severities :
        create_issue(hostname, description, description, severity, "auto-detected")
  /\ UNCHANGED <<execRest, apartVars>>

\* update_issue called with a status, with an investigation, or with an
\* action (_link_action_to_issue passes a status together with a note)
UpdateIssue ==
  /\ clock < MaxIssueOps
  /\ \E issue_id \in IssueIds :
        \/ \E status \in Statuses \cup {""} : update_issue(issue_id, status, <<>>, <<>>)
        \/ \E note \in Notes : update_issue(issue_id, "", note, <<>>)
        \/ \E note \in Notes : update_issue(issue_id, "", <<>>, note)
  /\ UNCHANGED <<execRest, apartVars>>

ResolveIssue ==
  /\ clock < MaxIssueOps
  /\ \E issue_id \in IssueIds : resolve_issue(issue_id, "fixed by hand")
  /\ UNCHANGED <<execRest, apartVars>>

CloseIssue ==
  /\ clock < MaxIssueOps
  /\ \E issue_id \in IssueIds, archived \in BOOLEAN : close_issue(issue_id, archived)
  /\ UNCHANGED <<execRest, apartVars>>

AutoResolve ==
  /\ clock < MaxIssueOps
  /\ \E hostname \in Hostnames, detected \in DetectedLists :
        auto_resolve_if_fixed(hostname, detected)
  /\ UNCHANGED <<execRest, apartVars>>

TrackIssue ==
  /\ clock < MaxIssueOps
  /\ \E hostname \in Hostnames, description \in Descriptions, severity \in Severities :
        /\ find_similar_issue(issue_store, hostname, description) = 0
              => next_issue <= MaxIssues
        /\ _track_or_update_issue(hostname, description, severity)
  /\ UNCHANGED <<execRest, apartVars>>

LinkAction ==
  /\ clock < MaxIssueOps
  /\ \E issue_id \in IssueIds, fix_proposal \in LinkProposals :
        \E execution_result \in ExecutionResults(fix_proposal) :
           _link_action_to_issue(issue_id, fix_proposal, execution_result)
  /\ UNCHANGED <<execRest, apartVars>>

\* the tracker of an orchestrator at autonomy level suggest
IssueInit0 ==
  /\ Init
  /\ autonomy_level = "suggest"

IssueNext ==
  \/ CreateIssue
  \/ UpdateIssue
  \/ ResolveIssue
  \/ CloseIssue
  \/ AutoResolve
  \/ TrackIssue
  \/ LinkAction

IssueSpec == IssueInit0 /\ [][IssueNext]_vars

(* the life of single issues: create, update, resolve, close *)

\* number of tracker calls in a run of LifecycleSpec
MaxLifeOps == 4

\* number of issues created in a run of LifecycleSpec
MaxLifeIssues == 2

LifeIds == 1..MaxLifeIssues

LifeStatuses == Statuses \cup {""}

\* the titles issues are created with: one of them has no words
LifeTitles == {<<>>, TitleNginxDown, TitleNginxAgain}

LifeCreate ==
  /\ clock < MaxLifeOps
  /\ next_issue <= MaxLifeIssues
  /\ \E hostname \in Hostnames, title \in LifeTitles :
        create_issue(hostname, title, title, "warning", "auto-detected")
  /\ UNCHANGED <<execRest, apartVars>>

LifeUpdate ==
  /\ clock < MaxLifeOps
  /\ \E issue_id \in LifeIds, status \in LifeStatuses :
        update_issue(issue_id, status, <<>>, <<>>)
  /\ UNCHANGED <<execRest, apartVars>>

LifeResolve ==
  /\ clock < MaxLifeOps
  /\ \E issue_id \in LifeIds : resolve_issue(issue_id, "fixed by hand")
  /\ UNCHANGED <<execRest, apartVars>>

LifeClose ==
  /\ clock < MaxLifeOps
  /\ \E issue_id \in LifeIds, archived \in BOOLEAN : close_issue(issue_id, archived)
  /\ UNCHANGED <<execRest, apartVars>>

LifecycleNext ==
  \/ LifeCreate
  \/ LifeUpdate
  \/ LifeResolve
  \/ LifeClose

LifecycleSpec == IssueInit0 /\ [][LifecycleNext]_vars

(* the maintenance cycle: run_once again and again, as run_continuous calls it *)

MaxCycles == 2

RunBegin ==
  /\ cycle_count < MaxCycles
  /\ \E outcome \in AnalysisOutcomes, issues \in IssueLists :
        /\ outcome # "parsed" => issues = <<>>
        /\ CycleBegin(outcome, issues)
  /\ UNCHANGED <<<<execVars, issueVars>>, ctxVars, trigVars, reviewVars, moreVars>>

RunTrack ==
  /\ CycleTrack
  /\ UNCHANGED <<execRest, ctxVars, trigVars, reviewVars, moreVars>>

RunExecute ==
  /\ \E fix_proposal \in CycleProposals : CycleExecute(fix_proposal)
  /\ UNCHANGED <<issueVars, ctxVars, trigVars, reviewVars, moreVars>>

RunLink ==
  /\ CycleLink
  /\ UNCHANGED <<execRest, ctxVars, trigVars, reviewVars, moreVars>>

RunFollowUp ==
  /\ \E actual_fix_proposal \in CycleProposals : CycleFollowUp(actual_fix_proposal)
  /\ UNCHANGED <<issueVars, ctxVars, trigVars, reviewVars, moreVars>>

RunResolve ==
  /\ CycleResolve
  /\ UNCHANGED <<execRest, ctxVars, trigVars, reviewVars, moreVars>>

CycleNext ==
  \/ RunBegin
  \/ RunTrack
  \/ RunExecute
  \/ RunLink
  \/ RunFollowUp
  \/ RunResolve

CycleSpec == Init /\ [][CycleNext]_vars

(* the context layer: events are admitted while time passes *)

MaxContextOps == 4

MaxSeconds == 900

TickSeconds == 300

\* the state of the subsystems the context layer leaves alone
ctxApart == <<execVars, issueVars, cycleVars, trigVars, reviewVars, moreVars>>

\* one more operation on the manager
CountOp ==
  /\ context_ops < MaxContextOps
  /\ context_ops' = context_ops + 1
  /\ UNCHANGED ctxApart

AddEventStep ==
  /\ CountOp
  /\ \E event \in Events, source \in Sources : add_event(event, source)

AddEventsStep ==
  /\ CountOp
  /\ \E e1 \in Events, e2 \in Events, source \in Sources :
        add_events(<<e1, e2>>, source)

SaveContext ==
  /\ CountOp
  /\ _save_context

LoadContext ==
  /\ CountOp
  /\ _load_context

ClearContext ==
  /\ CountOp
  /\ context_entries # <<>>
  /\ clear_context

\* time passes
Tick ==
  /\ utcnow < MaxSeconds
  /\ utcnow' = utcnow + TickSeconds
  /\ UNCHANGED <<context_size, context_entries, current_token_count, compression_stats,
                 context_file, context_ops, context_last, ctxApart>>

ContextInit0 ==
  /\ ExecInit
  /\ autonomy_level = "suggest"
  /\ ~dry_run
  /\ has_agent
  /\ IssueInit
  /\ CycleInit
  /\ ContextInit
  /\ TriggerInit
  /\ ReviewIdle
  /\ MoreInit

ContextNext ==
  \/ AddEventStep
  \/ AddEventsStep
  \/ SaveContext
  \/ LoadContext
  \/ ClearContext
  \/ Tick

ContextSpec == ContextInit0 /\ [][ContextNext]_vars

(* the trigger layer: check_all is called while time passes *)

MaxChecks == 3

MaxTriggerSeconds == 300

TriggerTickSeconds == 100

\* the state of the subsystems the trigger layer leaves alone
trigApart == <<execVars, issueVars, cycleVars, ctxVars, reviewVars, moreVars>>

CheckAll ==
  /\ stats.checks_performed < MaxChecks
  /\ \E obs \in Observations : check_all(obs)
  /\ UNCHANGED trigApart

\* time passes
TriggerTick ==
  /\ now_utc < MaxTriggerSeconds
  /\ now_utc' = now_utc + TriggerTickSeconds
  /\ UNCHANGED <<last_trigger_times, event_buffer, stats, check_last, last_event,
                 suppressed, trigApart>>

TriggerNext ==
  \/ CheckAll
  \/ TriggerTick

TriggerInit0 ==
  /\ Init
  /\ autonomy_level = "suggest"

TriggerSpec == TriggerInit0 /\ [][TriggerNext]_vars

(* the review verdict on any batch of triggers *)

MaxBatch == 4

ReviewSeverities == {"critical", "high", "medium", "low", "None"}

\* the batches of at most MaxBatch triggers
Batches ==
  UNION {[1..n -> {[severity |-> sv] : sv \in ReviewSeverities}] : n \in 0..MaxBatch}

ReviewInit ==
  /\ ExecInit
  /\ autonomy_level = "suggest"
  /\ ~dry_run
  /\ has_agent
  /\ IssueInit
  /\ CycleInit
  /\ ContextInit
  /\ context_size = 150
  /\ TriggerInit
  /\ MoreInit
  /\ review_batch \in Batches
  /\ review_called = FALSE
  /\ review_verdict = FALSE

ShouldTriggerReview ==
  /\ ~review_called
  /\ review_called' = TRUE
  /\ review_verdict' = should_trigger_review(review_batch)
  /\ UNCHANGED <<review_batch, execVars, issueVars, cycleVars, ctxVars, trigVars, moreVars>>

ReviewNext == ShouldTriggerReview

ReviewSpec == ReviewInit /\ [][ReviewNext]_vars

(* the layers: run_continuous calls run_cycle while time passes, and the
   service is stopped and started *)

MaxLayerCycles == 3

MaxLayerSeconds == 60

LayerTickSeconds == 30

MaxRestarts == 1

\* the state of the subsystems the layers leave alone
layerApart ==
  <<execVars, issueVars, cycleVars, reviewVars, queueVars, toolVars, lateVars>>

RunCycle ==
  /\ layer_cycle_count < MaxLayerCycles
  /\ \E obs \in LayerObservations, answer \in ReviewAnswers, response \in MetaResponses :
        run_cycle(obs, answer, response)
  /\ UNCHANGED layerApart

\* time passes: the three clocks are the host's
LayerTick ==
  /\ now_utc < MaxLayerSeconds
  /\ now_utc' = now_utc + LayerTickSeconds
  /\ utcnow' = utcnow + LayerTickSeconds
  /\ UNCHANGED <<last_trigger_times, event_buffer, stats, check_last, last_event,
                 suppressed>>
  /\ UNCHANGED <<context_size, context_entries, current_token_count, compression_stats,
                 context_file, context_ops, context_last>>
  /\ UNCHANGED <<layerVars, layerApart>>

StopAndStart ==
  /\ restarts < MaxRestarts
  /\ layer_cycle_count > 0
  /\ stop_and_start
  /\ UNCHANGED layerApart

LayerNext ==
  \/ RunCycle
  \/ LayerTick
  \/ StopAndStart

LayerSpec == TriggerInit0 /\ [][LayerNext]_vars

(* the queue: one worker, and callers that query through their MetaModel *)

MaxQueueCalls == 3

\* the state of the subsystems the queue leaves alone
queueApart ==
  <<execVars, issueVars, cycleVars, ctxVars, trigVars, reviewVars, layerVars, toolVars,
    lateVars>>

WorkerPicks == PickRequest /\ UNCHANGED queueApart

WorkerUnlinksPending == UnlinkPending /\ UNCHANGED queueApart

WorkerFinishes == (\E ok \in BOOLEAN : FinishRequest(ok)) /\ UNCHANGED queueApart

WorkerUnlinksProcessing == UnlinkProcessing /\ UNCHANGED queueApart

CallerBegins ==
  /\ queue_calls < MaxQueueCalls
  /\ \E c \in Callers : BeginQuery(c)
  /\ UNCHANGED queueApart

CallerMakesId == (\E c \in Callers : SubmitId(c)) /\ UNCHANGED queueApart

CallerWrites == (\E c \in Callers : SubmitWrite(c)) /\ UNCHANGED queueApart

CallerGetsResult == (\E c \in Callers : WaitReturns(c)) /\ UNCHANGED queueApart

CallerFallsBack == (\E c \in Callers : WaitRaises(c)) /\ UNCHANGED queueApart

CallerDirectReturns ==
  (\E c \in Callers, ok \in BOOLEAN : DirectReturns(c, ok)) /\ UNCHANGED queueApart

QueueNext ==
  \/ WorkerPicks
  \/ WorkerUnlinksPending
  \/ WorkerFinishes
  \/ WorkerUnlinksProcessing
  \/ CallerBegins
  \/ CallerMakesId
  \/ CallerWrites
  \/ CallerGetsResult
  \/ CallerFallsBack
  \/ CallerDirectReturns

\* each MetaModel is constructed with a priority of its own
QueueInit0 ==
  /\ ExecInit
  /\ autonomy_level = "suggest"
  /\ ~dry_run
  /\ has_agent
  /\ IssueInit
  /\ CycleInit
  /\ ContextInit
  /\ context_size = 150
  /\ TriggerInit
  /\ ReviewIdle
  /\ LayerInit
  /\ ToolIdle
  /\ LateInit
  /\ QueueIdle
  /\ caller_priority \in [Callers -> Priorities]

QueueSpec == QueueInit0 /\ [][QueueNext]_vars

(* the queue with a worker that keeps running: start_worker's loop calls
   _process_next_request again and again, and a call of the backend returns
   or raises *)

MaxLiveCalls == 2

LiveCallerBegins ==
  /\ queue_calls < MaxLiveCalls
  /\ \E c \in Callers : BeginQuery(c)
  /\ UNCHANGED queueApart

QueueLiveNext ==
  \/ WorkerPicks
  \/ WorkerUnlinksPending
  \/ WorkerFinishes
  \/ WorkerUnlinksProcessing
  \/ LiveCallerBegins
  \/ CallerMakesId
  \/ CallerWrites
  \/ CallerGetsResult
  \/ CallerFallsBack
  \/ CallerDirectReturns

\* an interactive caller (the chat) and an autonomous one (the orchestrator)
QueueLiveInit ==
  /\ QueueInit0
  /\ caller_priority = [c \in Callers |-> IF c = "first" THEN INTERACTIVE ELSE AUTONOMOUS]

QueueLiveSpec ==
  /\ QueueLiveInit
  /\ [][QueueLiveNext]_vars
  /\ WF_vars(WorkerPicks)
  /\ WF_vars(WorkerUnlinksPending)
  /\ WF_vars(WorkerFinishes)
  /\ WF_vars(WorkerUnlinksProcessing)

(* the queue with a worker that can be killed and started again *)

MaxWorkerKills == 1

WorkerKilledAndRestarted ==
  /\ worker_kills < MaxWorkerKills
  /\ kill_and_restart
  /\ UNCHANGED <<execVars, issueVars, cycleVars, ctxVars, trigVars, reviewVars, layerVars,
                 toolVars, safeVars, validateVars, cacheVars>>

KillNext ==
  \/ QueueLiveNext
  \/ WorkerKilledAndRestarted

KillSpec ==
  /\ QueueLiveInit
  /\ [][KillNext]_vars
  /\ WF_vars(WorkerPicks)
  /\ WF_vars(WorkerUnlinksPending)
  /\ WF_vars(WorkerFinishes)
  /\ WF_vars(WorkerUnlinksProcessing)

(* the tool-calling loop, for any MetaModel and any answers *)

\* the state of the subsystems the loop leaves alone
toolApart ==
  <<execVars, issueVars, cycleVars, ctxVars, trigVars, reviewVars, layerVars, queueVars,
    lateVars>>

RunPass ==
  /\ \E queue_outcome \in QueueOutcomes, answer \in BackendAnswers, tools \in ToolBatches :
        loop_pass(queue_outcome, answer, tools)
  /\ UNCHANGED toolApart

RunWithoutTools ==
  /\ \E queue_outcome \in QueueOutcomes, answer \in BackendAnswers :
        query_without_tools(queue_outcome, answer)
  /\ UNCHANGED toolApart

ToolNext ==
  \/ RunPass
  \/ RunWithoutTools

ToolInit ==
  /\ ExecInit
  /\ autonomy_level = "suggest"
  /\ ~dry_run
  /\ has_agent
  /\ IssueInit
  /\ CycleInit
  /\ ContextInit
  /\ context_size = 150
  /\ TriggerInit
  /\ ReviewIdle
  /\ LayerInit
  /\ QueueInit
  /\ LateInit
  /\ tool_config \in ToolConfigs
  /\ tool_pc = "running"
  /\ iteration = 0
  /\ dispatches = [queued |-> 0, posted |-> 0, summaries |-> 0]
  /\ tool_return = "none"
  /\ emergency_resets = 0

ToolSpec == ToolInit /\ [][ToolNext]_vars

(* the review layer's safe actions, at any autonomy level *)

\* the state of the subsystems the review layer's loop leaves alone
safeApart ==
  <<issueVars, cycleVars, trigVars, reviewVars, layerVars, queueVars, toolVars,
    validateVars, cacheVars, killVars>>

ReviewSafeAction ==
  /\ clock < MaxClock
  /\ \E action \in ReviewActions : review_safe_action(action)
  /\ UNCHANGED <<context_ops, safeApart>>

SafeNext == ReviewSafeAction

\* NewOrchestrator makes the executor with the autonomy level of its command
\* line, without dry_run and without an agent
SafeActionInit ==
  /\ GateInit
  /\ ~dry_run
  /\ ~has_agent

SafeActionSpec == SafeActionInit /\ [][SafeNext]_vars

(* investigations, at the levels that let them through *)

\* the command lines a proposal may hold
InvestigationCommands ==
  {DiskFree, <<"psql">>, <<"systemctl", "status", "sshd">>, RestartNginx,
   <<"rm", "-rf", "/">>, <<"journalctl", "-u", "nginx">>}

\* low-risk investigations of one or two commands
CommandProposals ==
  {Proposal(ProposalKeys, "investigation", "low", cmds, DiagDisk,
            <<"check", "disk", "usage">>, "")
     : cmds \in {<<c>> : c \in InvestigationCommands}
               \cup {<<c, d>> : c \in {DiskFree, <<"psql">>},
                                d \in {<<"rm", "-rf", "/">>, <<"systemctl", "status", "sshd">>}}}

Investigate ==
  /\ clock < MaxClock
  /\ \E action \in CommandProposals, ctx \in MonitoringContexts :
        execute_action(action, ctx)
  /\ UNCHANGED <<issueVars, apartVars>>

InvestigationNext == Investigate

InvestigationInit ==
  /\ GateInit
  /\ autonomy_level # "observe"
  /\ ~dry_run

InvestigationSpec == InvestigationInit /\ [][InvestigationNext]_vars

(* the validation of the token budget at startup, for any configured
   budget and any declared capacity *)

MaxConfigured == 20

MaxCapacity == 16

\* the state of the subsystems the validation leaves alone
validateApart ==
  <<execVars, issueVars, cycleVars, trigVars, reviewVars, layerVars, queueVars, toolVars,
    safeVars, cacheVars, killVars>>

Validate ==
  /\ validated = "none"
  /\ \E model_context_size \in 1..MaxCapacity : validate_context_size(model_context_size)
  /\ UNCHANGED validateApart

ValidateNext == Validate

ValidateInit0 ==
  /\ ExecInit
  /\ autonomy_level = "suggest"
  /\ ~dry_run
  /\ has_agent
  /\ IssueInit
  /\ CycleInit
  /\ context_size \in 1..MaxConfigured
  /\ context_entries = <<>>
  /\ current_token_count = 0
  /\ compression_stats = Stats(0, 0, 0)
  /\ context_file = <<>>
  /\ utcnow = 0
  /\ context_ops = 0
  /\ context_last = ContextCall("none", FALSE, ThisContext, ThisContext)
  /\ TriggerInit
  /\ ReviewIdle
  /\ MoreInit

ValidateSpec == ValidateInit0 /\ [][ValidateNext]_vars

(* the tool-output cache, written by the meta layer while time passes *)

MaxCacheWrites == 3

MaxCacheTicks == 3

ToolNames == {"check_disk", "get_logs"}

RawOutputs == {"first", "second"}

\* what the writers of the cache leave alone of the last subsystems
cacheRest == <<safeVars, validateVars, killVars>>

ExtractKeyFindings ==
  /\ Len(cache_writes) < MaxCacheWrites
  /\ \E tool_name \in ToolNames, raw_output \in RawOutputs, writable \in BOOLEAN :
        _extract_key_findings(tool_name, raw_output, writable)
  /\ UNCHANGED <<execVars, issueVars, cycleVars, ctxVars, trigVars, reviewVars, layerVars,
                 queueVars, toolVars, cacheRest>>

CacheTick ==
  /\ cache_now < MaxCacheTicks
  /\ cache_now' = cache_now + 1
  /\ UNCHANGED <<tool_cache, cache_writes>>
  /\ UNCHANGED <<execVars, issueVars, cycleVars, ctxVars, trigVars, reviewVars, layerVars,
                 queueVars, toolVars, cacheRest>>

CacheNext ==
  \/ ExtractKeyFindings
  \/ CacheTick

CacheSpec == Init /\ [][CacheNext]_vars

(* the operator's process and the orchestrator's process on one state
   directory *)

ExecuteMeanwhile ==
  /\ clock < MaxClock
  /\ \E action \in Proposals, ctx \in MonitoringContexts :
        execute_action_meanwhile(action, ctx)
  /\ UNCHANGED <<issueVars, apartVars>>

ConcurrentNext ==
  \/ ExecuteAction
  \/ ExecuteMeanwhile
  \/ ApproveAction
  \/ RejectAction

ConcurrentInit ==
  /\ Init
  /\ autonomy_level = "suggest"

ConcurrentSpec == ConcurrentInit /\ [][ConcurrentNext]_vars

(* ===================== claims about SafeExecutor ======================= *)

\* a step that is one whole execute_action call; last' holds its arguments
\* and its return value
IsExecuteStep ==
  /\ clock' = clock + 1
  /\ op_pc' = "idle"
  /\ last'.op = "execute_action"

\* no action handler ran in the step: nothing logged, no host call, no patch
\* file, no learning
NoHandlerRan == UNCHANGED <<action_log, host_calls, patch_files, learned>>

RiskOf(action) == Get(action, "risk_level", "high")

TypeOf(action) == Get(action, "action_type", "unknown")

StatusOf(result) == Get(result, "status", "")

\* C1: whatever the autonomy level and the action type, execute_action on a
\* proposal whose risk_level is high, or missing, returns executed = false and
\* runs no action handler.
C1_HighRiskNeverDispatched ==
  [][(IsExecuteStep /\ RiskOf(last'.action) = "high")
       => (~last'.result.executed /\ NoHandlerRan)]_vars

C1_Witness ==
  /\ last.op = "execute_action"
  /\ autonomy_level = "auto-full"
  /\ ~dry_run
  /\ "risk_level" \notin last.action.keys
  /\ TypeOf(last.action) = "systemd_restart"
  /\ StatusOf(last.result) = "blocked"

\* the autonomy table of the specification: is (level, type, risk) "auto"
TableAuto(level, action_type, risk_level) ==
  CASE level = "observe" -> FALSE
    [] level = "suggest" -> action_type = "investigation" /\ risk_level = "low"
    [] level = "auto-safe" -> risk_level = "low"
    [] level = "auto-full" -> risk_level \in {"low", "medium"}

\* the table the code implements: at auto-safe only the safe action types
CodeTableAuto(level, action_type, risk_level) ==
  CASE level = "observe" -> FALSE
    [] level = "suggest" -> action_type = "investigation" /\ risk_level = "low"
    [] level = "auto-safe" ->
         risk_level = "low" /\ action_type \in {"systemd_restart", "cleanup", "investigation"}
    [] level = "auto-full" -> risk_level \in {"low", "medium"}

\* the last call was execute_action on a proposal with one of the five
\* action types and an explicit risk level, outside dry-run mode
GateCase ==
  /\ last.op = "execute_action"
  /\ ~dry_run
  /\ TypeOf(last.action) \in ActionTypes
  /\ "risk_level" \in last.action.keys
  /\ RiskOf(last.action) \in RiskLevels

\* C2 as stated: execute_action auto-executes exactly when the table of the
\* specification says auto (auto-safe: every low-risk proposal).
C2_Original ==
  GateCase =>
    (last.result.executed
       <=> TableAuto(autonomy_level, TypeOf(last.action), RiskOf(last.action)))

\* C2 amended: execute_action auto-executes exactly when the table says auto,
\* where auto-safe is auto only for low-risk systemd_restart, cleanup and
\* investigation proposals; in dry-run mode the same proposals get the
\* dry_run result instead of being executed.
C2_GateMatchesCodeTable ==
  (last.op = "execute_action" /\ TypeOf(last.action) \in ActionTypes
     /\ "risk_level" \in last.action.keys /\ RiskOf(last.action) \in RiskLevels)
  => LET auto == CodeTableAuto(autonomy_level, TypeOf(last.action), RiskOf(last.action))
     IN  /\ last.result.executed <=> (auto /\ ~dry_run)
         /\ (StatusOf(last.result) = "dry_run") <=> (auto /\ dry_run)

C2_Witness ==
  /\ GateCase
  /\ autonomy_level = "auto-safe"
  /\ TypeOf(last.action) = "nix_rebuild"
  /\ RiskOf(last.action) = "low"
  /\ ~last.result.executed

\* C3: no sequence of execute_action and approve_action calls makes the host's
\* service manager restart a protected unit.
C3_ProtectedNeverRestarted ==
  RestartedUnits(host_calls) \cap ProtectedUnits = {}

HasBlockedLine(result) ==
  \E k \in 1..Len(result.output) : result.output[k].kind = "BLOCKED"

\* C4: the result of a systemd_restart proposal whose command restarts a
\* protected unit is not a success (status blocked), and the learning hook is
\* not called for it.
C4_BlockedIsNotSuccess ==
  \A k \in 1..Len(action_log) :
     (TypeOf(action_log[k].action) = "systemd_restart" /\ HasBlockedLine(action_log[k]))
       => /\ ~Get(action_log[k], "success", FALSE)
          /\ StatusOf(action_log[k]) = "blocked"
          /\ \A j \in 1..Len(learned) : learned[j].outcome # action_log[k].output

\* the words of a text that count for the similarity: lowercased, split at
\* whitespace, stop words removed
SignificantWords(text) ==
  {LowerChars(Spelling(text[i])) : i \in DOMAIN text} \ common_words

\* the Jaccard similarity of two texts is greater than 0.7
JaccardAbove07(t1, t2) ==
  LET a == SignificantWords(t1)
      b == SignificantWords(t2)
  IN  /\ a \cup b # {}
      /\ 10 * Cardinality(a \cap b) > 7 * Cardinality(a \cup b)

\* two non-empty texts that are equal up to letter case
SameText(t1, t2) ==
  /\ t1 # <<>>
  /\ LowerChars(StrChars(t1)) = LowerChars(StrChars(t2))

TextOf(action, field) == Get(action, field, <<>>)

\* some pending entry of the queue has a diagnosis or a proposed_action that
\* is the same as, or has Jaccard similarity above 0.7 to, that of the action
SimilarPending(queue, action) ==
  \E i \in DOMAIN queue, field \in {"diagnosis", "proposed_action"} :
     /\ queue[i].approved = "None"
     /\ \/ SameText(TextOf(action, field), TextOf(queue[i].action, field))
        \/ JaccardAbove07(TextOf(action, field), TextOf(queue[i].action, field))

IsLowRiskInvestigation(action) ==
  TypeOf(action) = "investigation" /\ RiskOf(action) = "low"

\* C5: at level suggest, execute_action on anything but a low-risk
\* investigation returns queued_for_approval with executed = false and runs no
\* handler; when no similar entry is pending the queue grows by exactly one
\* entry, appended at the end, and the earlier entries are unchanged.
C5_SuggestQueues ==
  [][(IsExecuteStep /\ autonomy_level = "suggest" /\ ~IsLowRiskInvestigation(last'.action))
       => /\ StatusOf(last'.result) = "queued_for_approval"
          /\ ~last'.result.executed
          /\ NoHandlerRan
          /\ ~SimilarPending(approval_queue, last'.action)
               => /\ Len(approval_queue') = Len(approval_queue) + 1
                  /\ SubSeq(approval_queue', 1, Len(approval_queue)) = approval_queue
                  /\ approval_queue'[Len(approval_queue')].action = last'.action
                  /\ approval_queue'[Len(approval_queue')].approved = "None"]_vars

C5_Witness ==
  /\ last.op = "execute_action"
  /\ autonomy_level = "suggest"
  /\ StatusOf(last.result) = "queued_for_approval"
  /\ Len(approval_queue) = 2
  /\ approval_queue[2].action = last.action
  /\ approval_queue[2].timestamp = clock
  /\ ~SimilarPending(SubSeq(approval_queue, 1, 1), last.action)

QueueHolds(queue, action) == \E i \in DOMAIN queue : queue[i].action = action

\* C6: at auto-safe and auto-full a proposal the gate does not auto-execute is
\* queued for approval: the status is queued_for_approval and the proposal is
\* in the approval queue.
C6_RefusedIsQueued ==
  (/\ last.op = "execute_action"
   /\ autonomy_level \in {"auto-safe", "auto-full"}
   /\ ~last.result.executed
   /\ StatusOf(last.result) # "dry_run")
  => /\ StatusOf(last.result) = "queued_for_approval"
     /\ QueueHolds(approval_queue, last.action)

\* a pending entry whose diagnosis, or whose proposed_action, has Jaccard
\* similarity above 0.7 to the same field of the action
JaccardSimilarPending(queue, action) ==
  \E i \in DOMAIN queue, field \in {"diagnosis", "proposed_action"} :
     /\ queue[i].approved = "None"
     /\ JaccardAbove07(TextOf(action, field), TextOf(queue[i].action, field))

\* C7: enqueuing a proposal whose diagnosis or proposed_action has Jaccard
\* similarity above 0.7 to the same field of a pending entry leaves the
\* approval queue unchanged.
C7_SimilarLeavesQueue ==
  [][(IsExecuteStep /\ StatusOf(last'.result) = "queued_for_approval"
        /\ JaccardSimilarPending(approval_queue, last'.action))
       => approval_queue' = approval_queue]_vars

C7_Witness ==
  /\ last.op = "execute_action"
  /\ StatusOf(last.result) = "queued_for_approval"
  /\ ~QueueHolds(approval_queue, last.action)
  /\ \E i \in DOMAIN approval_queue :
        /\ JaccardAbove07(TextOf(last.action, "diagnosis"),
                          TextOf(approval_queue[i].action, "diagnosis"))
        /\ ~SameText(TextOf(last.action, "diagnosis"),
                     TextOf(approval_queue[i].action, "diagnosis"))

\* the number of queue entries that hold the action
EntriesFor(queue, action) == Cardinality({i \in DOMAIN queue : queue[i].action = action})

\* a step that is the second of two execute_action calls in a row with the
\* same proposal, both answered queued_for_approval at level suggest
IsSecondSubmission ==
  /\ IsExecuteStep
  /\ autonomy_level = "suggest"
  /\ last.op = "execute_action"
  /\ last'.action = last.action
  /\ StatusOf(last.result) = "queued_for_approval"

\* C8 as stated: after any queued proposal is submitted twice in a row the
\* queue holds exactly one entry for it, and the second call returns normally.
C8_Original ==
  [][IsSecondSubmission
       => /\ EntriesFor(approval_queue', last'.action) = 1
          /\ StatusOf(last'.result) = "queued_for_approval"]_vars

HasText(action) ==
  TextOf(action, "diagnosis") # <<>> \/ TextOf(action, "proposed_action") # <<>>

\* C8 amended: for a queued proposal with a non-empty diagnosis or
\* proposed_action, the second of two submissions in a row changes nothing in
\* the queue and returns queued_for_approval; the queue then holds at most one
\* entry for the proposal, and exactly one unless a similar entry was pending
\* before the first submission.
C8_TwiceQueuesOnce ==
  [][(IsSecondSubmission /\ HasText(last'.action))
       => /\ approval_queue' = approval_queue
          /\ StatusOf(last'.result) = "queued_for_approval"
          /\ ~last'.result.executed
          /\ EntriesFor(approval_queue', last'.action) <= 1
          /\ \/ EntriesFor(approval_queue', last'.action) = 1
             \/ SimilarPending(approval_queue', last'.action)]_vars

C8_Witness ==
  /\ last.op = "execute_action"
  /\ autonomy_level = "suggest"
  /\ clock = 2
  /\ HasText(last.action)
  /\ StatusOf(last.result) = "queued_for_approval"
  /\ Len(approval_queue) = 1
  /\ approval_queue[1].action = last.action
  /\ approval_queue[1].timestamp = 1

\* the queue without its entry at the 0-based index
Without(queue, index) ==
  SubSeq(queue, 1, index) \o SubSeq(queue, index + 2, Len(queue))

InRange(queue, index) == 0 <= index /\ index < Len(queue)

\* C9: approve_action(i) with a valid index executes the proposal stored at i,
\* then appends one (entry, result) record to the archive, then removes that
\* entry from the queue, whether the execution succeeded or not; with an
\* index out of range it changes nothing and returns false.
C9_ApproveOrder ==
  [][/\ (op_pc = "execute" /\ op_pc' = "archive")
          => /\ action_log' = Append(action_log, op_result')
             /\ op_result'.action = approval_queue[op_index + 1].action
             /\ op_result'.executed
             /\ UNCHANGED <<approval_queue, approved_actions>>
     /\ (op_pc = "archive" /\ op_pc' = "remove")
          => /\ Len(approved_actions') = Len(approved_actions) + 1
             /\ SubSeq(approved_actions', 1, Len(approved_actions)) = approved_actions
             /\ LET rec == approved_actions'[Len(approved_actions')]
                    entry == approval_queue[op_index + 1]
                IN  /\ rec.action = entry.action
                    /\ rec.context = entry.context
                    /\ rec.original_timestamp = entry.timestamp
                    /\ rec.result = action_log[Len(action_log)]
             /\ UNCHANGED <<approval_queue, action_log, host_calls>>
     /\ (op_pc = "remove" /\ op_pc' = "idle")
          => /\ approval_queue' = Without(approval_queue, op_index)
             /\ last'.op = "approve_action"
             /\ last'.ret = Get(op_result, "success", FALSE)
             /\ UNCHANGED <<approved_actions, action_log, host_calls>>
     /\ (op_pc = "idle" /\ op_pc' = "idle" /\ clock' = clock + 1
           /\ last'.op = "approve_action")
          => /\ ~InRange(approval_queue, last'.index)
             /\ ~last'.ret
             /\ UNCHANGED <<approval_queue, approved_actions, action_log, host_calls,
                            patch_files, learned>>
     /\ (op_pc = "idle" /\ op_pc' = "execute")
          => /\ InRange(approval_queue, op_index')
             /\ UNCHANGED <<approval_queue, approved_actions, action_log, host_calls,
                            patch_files, learned>>]_vars

C9_Witness ==
  /\ last.op = "approve_action"
  /\ last.index = 0
  /\ ~last.ret
  /\ last.result.executed
  /\ Len(approved_actions) = 1
  /\ approved_actions[1].action = last.action
  /\ Len(approval_queue) = 1
  /\ approval_queue[1].action # last.action

(* ===================== claims about IssueTracker ======================= *)

Rank(status) ==
  CASE status = "open" -> 1
    [] status = "investigating" -> 2
    [] status = "fixing" -> 3
    [] status = "resolved" -> 4
    [] status = "closed" -> 5

\* C10: the statuses an issue takes, in order, are a subsequence of open,
\* investigating, fixing, resolved, closed: under any sequence of
\* create_issue, update_issue, resolve_issue, close_issue,
\* auto_resolve_if_fixed and _link_action_to_issue calls no issue's status
\* ever moves backwards.
C10_StatusNeverMovesBack ==
  \A issue_id \in DOMAIN status_history :
     \A k \in 1..(Len(status_history[issue_id]) - 1) :
        Rank(status_history[issue_id][k]) < Rank(status_history[issue_id][k + 1])

\* a step that is one whole call of the tracker operation op
IsTrackerStep(op) ==
  /\ clock' = clock + 1
  /\ tracker_last'.op = op

\* the issue was created and has been closed: it is no longer live
IsClosed(issue_id) ==
  /\ issue_id \in DOMAIN status_history
  /\ ~HasIssue(issue_id)

\* C11: close_issue succeeds exactly from status resolved; a refused close
\* leaves the live store and the archive unchanged; a successful close removes
\* the issue from the live store (get_issue finds nothing), and no later
\* update_issue, resolve_issue or close_issue on a closed id succeeds or
\* changes the live store or the archive.
C11_CloseIsTerminal ==
  [][/\ IsTrackerStep("close_issue") =>
          LET id == tracker_last'.issue_id
              resolved == HasIssue(id) /\ issue_store[id].status = "resolved"
          IN  /\ tracker_last'.ok <=> resolved
              /\ ~resolved => (issue_store' = issue_store /\ closed_log' = closed_log)
              /\ resolved => id \notin DOMAIN issue_store'
     /\ \A id \in DOMAIN status_history :
          IsClosed(id) =>
            /\ id \notin DOMAIN issue_store'
            /\ ( /\ clock' = clock + 1
                 /\ tracker_last'.op \in {"update_issue", "resolve_issue", "close_issue"}
                 /\ tracker_last'.issue_id = id )
               => /\ ~tracker_last'.ok
                  /\ issue_store' = issue_store
                  /\ closed_log' = closed_log]_vars

\* an update of an issue that was resolved, closed and archived
C11_Witness ==
  /\ tracker_last.op = "update_issue"
  /\ ~tracker_last.ok
  /\ IsClosed(tracker_last.issue_id)
  /\ Len(closed_log) = 1
  /\ closed_log[1].issue_id = tracker_last.issue_id
  /\ closed_log[1].status = "closed"
  /\ issue_store = <<>>

(* ------------------- claims about the maintenance cycle ---------------- *)

\* the issue goes to status resolved in this step
BecomesResolved(issue_id) ==
  /\ HasIssue(issue_id)
  /\ issue_id \in DOMAIN issue_store'
  /\ issue_store[issue_id].status # "resolved"
  /\ issue_store'[issue_id].status = "resolved"

\* C12: an issue reaches status resolved only in a cycle whose analysis ran
\* and no longer detected the issue's problem; a cycle whose analysis was
\* skipped, failed at the backend or came back unparsable resolves no issue.
C12_ResolvedOnlyAfterAnalysis ==
  [][\A issue_id \in LiveIds :
        BecomesResolved(issue_id) =>
          /\ cycle_outcome = "parsed"
          /\ ~StillPresent(issue_store[issue_id], cycle_detected)]_vars

\* C13: after any sequence of cycles that report problems through
\* _track_or_update_issue and link their actions through
\* _link_action_to_issue, no two live issues of one host have titles that
\* find_similar_issue treats as the same problem.
C13_OneLiveIssuePerProblem ==
  \A i, j \in LiveIds :
     (i # j /\ issue_store[i].hostname = issue_store[j].hostname)
        => ~TitlesOverlap(issue_store[i].title, issue_store[j].title)

(* ------------------------ claims about the search ---------------------- *)

\* what find_similar_issue returns for the host and title of the issue that
\* the create_issue of this step has stored
FoundAfterCreate ==
  LET created == issue_store'[tracker_last'.issue_id]
  IN  find_similar_issue(issue_store', created.hostname, created.title)

\* C14 as stated: for every host and every title, find_similar_issue(host,
\* title) directly after create_issue(host, title, ...) returns the issue
\* just created.
C14_Original ==
  [][IsTrackerStep("create_issue") => FoundAfterCreate = tracker_last'.issue_id]_vars

\* C14: for every host and every title that holds at least one word,
\* find_similar_issue(host, title) directly after create_issue(host, title,
\* ...) returns the issue just created, whatever other open issues the host
\* has; for a title without words it returns None.
C14_FindsCreatedIssue ==
  [][IsTrackerStep("create_issue") =>
       LET created == issue_store'[tracker_last'.issue_id]
       IN  FoundAfterCreate =
             (IF WordSet(created.title) # {} THEN created.issue_id ELSE 0)]_vars

\* an issue has just been created on a host that has an older open issue
\* with a matching title
C14_Witness ==
  /\ tracker_last.op = "create_issue"
  /\ tracker_last.issue_id = 2
  /\ HasIssue(1) /\ HasIssue(2)
  /\ issue_store[1].status = "open"
  /\ issue_store[1].hostname = issue_store[2].hostname
  /\ WordSet(issue_store[2].title) # {}
  /\ TitlesOverlap(issue_store[2].title, issue_store[1].title)
  /\ find_similar_issue(issue_store, issue_store[2].hostname, issue_store[2].title) = 2

(* --------------------- claims about auto-resolution -------------------- *)

\* a word of the text is one of the words of the detected-problem string
AnyWholeWordIn(text, detected) == WordSet(text) \cap WordSet(detected) # {}

\* the open issues of the host none of whose words is a word of a detected
\* problem
NoLongerDetected(store, hostname, detected_problems) ==
  {id \in DOMAIN store :
     /\ store[id].hostname = hostname
     /\ store[id].status = "open"
     /\ \A k \in 1..Len(detected_problems) :
           /\ ~AnyWholeWordIn(store[id].title, detected_problems[k])
           /\ ~AnyWholeWordIn(store[id].description, detected_problems[k])}

\* C15: auto_resolve_if_fixed(host, detected) resolves an open issue of the
\* host if and only if no word of its lowercased title or description is a
\* whole word of a lowercased detected-problem string; it leaves every other
\* issue unchanged and returns the number of issues it resolved.
C15_ResolvesUndetected ==
  [][\A hostname \in Hostnames, detected \in DetectedLists :
        auto_resolve_if_fixed(hostname, detected) =>
          LET fixed == NoLongerDetected(issue_store, hostname, detected)
          IN  /\ DOMAIN issue_store' = DOMAIN issue_store
              /\ \A id \in LiveIds :
                    IF id \in fixed THEN issue_store'[id].status = "resolved"
                                    ELSE issue_store'[id] = issue_store[id]
              /\ tracker_last'.count = Cardinality(fixed)]_vars

(* ----------------------- claims about the context ---------------------- *)

\* C16: after every context-layer operation (add_event, add_events, a
\* compression pass, a reload, and admission into a buffer that already
\* holds its maximum number of entries) the token_counts of the entries in
\* the buffer add up to current_token_count.
C16_TokensConserved == SumTokens(context_entries) = current_token_count

\* C17: after every add_event, current_token_count is at most context_size.
C17_WithinBudget ==
  context_last.op = "add_event" => current_token_count <= context_size

\* C18: every compression pass leaves the number of entries unchanged and
\* does not increase the token total: no compressed entry costs more than it
\* did, so tokens_after <= tokens_before and tokens_saved never decreases.
C18_CompressionShrinks ==
  context_last.compressed =>
    LET before == context_last.before
        after == context_last.after
    IN  /\ Len(after.entries) = Len(before.entries)
        /\ \A k \in 1..Len(before.entries) :
              after.entries[k].token_count <= before.entries[k].token_count
        /\ after.current_token_count <= before.current_token_count
        /\ after.compression_stats.tokens_saved >= before.compression_stats.tokens_saved

(* ---------------------- claims about the triggers ---------------------- *)

\* the debounce of a trigger key, in seconds
debounce(k) == IF k \in PatternKeys THEN 60 ELSE 300

\* the value a trigger under the key carries for the observation
ObservedValue(obs, k) ==
  CASE k = "cpu_high" -> obs.cpu_percent
    [] k = "error_rate_high" -> obs.error_count
    [] OTHER -> 0

\* the key has not been emitted yet, or its last emission is at least its
\* debounce ago
Due(k) == k \notin DOMAIN last_event \/ now_utc - last_event[k].timestamp >= debounce(k)

\* C19: for every trigger key k a check emits k exactly once if the check
\* sees a breach of k and k was never emitted or was last emitted at least
\* debounce(k) ago (300 s for metric, service and error-rate keys, 60 s for
\* log-pattern keys), and not at all otherwise; the event carries the value
\* of that check. Two consecutive emissions of k are therefore at least
\* debounce(k) apart, and breaching checks inside one window add no event.
C19_Debounce ==
  [][stats'.checks_performed = stats.checks_performed + 1 =>
       \A k \in TriggerKeys :
          LET returned == check_last'.triggers
              emitted == {i \in 1..Len(returned) : returned[i].key = k}
          IN  /\ Cardinality(emitted) =
                   (IF k \in Breached(check_last'.obs) /\ Due(k) THEN 1 ELSE 0)
              /\ \A i \in emitted :
                    /\ returned[i].timestamp = now_utc
                    /\ returned[i].value = ObservedValue(check_last'.obs, k)
              /\ (emitted # {} /\ k \in DOMAIN last_event) =>
                    now_utc - last_event[k].timestamp >= debounce(k)
              /\ emitted = {} => (k \in DOMAIN last_event' <=> k \in DOMAIN last_event)
              /\ (emitted = {} /\ k \in DOMAIN last_event) =>
                    last_event'[k] = last_event[k]]_vars

\* three breaching checks of the CPU in one window: one event, with the
\* first value
C19_Witness ==
  /\ stats.checks_performed = 3
  /\ stats.triggers_fired = 1
  /\ suppressed["cpu_high"] = 2
  /\ "cpu_high" \in DOMAIN last_event
  /\ last_event["cpu_high"].value = 91
  /\ check_last.obs.cpu_percent = 92
  /\ check_last.triggers = <<>>
  /\ now_utc - last_event["cpu_high"].timestamp < 300

\* the number of triggers of the batch with the severity
Having(batch, severity) ==
  Cardinality({i \in 1..Len(batch) : batch[i].severity = severity})

\* C20: should_trigger_review(batch) is true if and only if the batch holds
\* at least one critical event, or at least two high events, or at least
\* three medium events; it is false for the empty batch and for a batch of
\* low events only.
C20_ReviewVerdict ==
  review_called =>
    /\ review_verdict <=>
         \/ Having(review_batch, "critical") >= 1
         \/ Having(review_batch, "high") >= 2
         \/ Having(review_batch, "medium") >= 3
    /\ review_batch = <<>> => ~review_verdict
    /\ Having(review_batch, "low") = Len(review_batch) => ~review_verdict

\* three medium events and one high event make a review
C20_Witness ==
  /\ review_called
  /\ review_verdict
  /\ Having(review_batch, "critical") = 0
  /\ Having(review_batch, "high") = 1
  /\ Having(review_batch, "medium") = 3

(* ------------------------ claims about the layers --------------------- *)

\* a step that is one whole run_cycle
IsRunCycle == layer_cycle_count' = layer_cycle_count + 1

\* C21: whenever a trigger check pass emits a batch whose review verdict
\* is true, the orchestrator runs a review right after that pass, in the
\* same cycle, whether or not the review interval has elapsed; and no two
\* reviews are in flight at any time (a cycle runs at most one).
C21_ReviewAfterWorthyPass ==
  [][(IsRunCycle /\ layer_result'.layer1_ran /\ layer_result'.verdict) =>
       layer_result'.layer3_ran]_vars

\* C22: in every cycle whose review result asks for escalation the meta
\* layer is invoked exactly once and a meta_analysis event is admitted to
\* the context buffer before the cycle ends; in a cycle whose review result
\* does not ask for it the meta layer is not invoked.
C22_EscalationReachesMeta ==
  [][IsRunCycle =>
       IF layer_result'.escalation_recommended
         THEN /\ layer_result'.layer4_calls = 1
              /\ layer_result'.meta_admitted
              /\ context_entries' # <<>>
              /\ context_entries'[Len(context_entries')].event.type = "meta_analysis"
         ELSE layer_result'.layer4_calls = 0]_vars

\* C31: if the review layer ends in error in two consecutive review runs,
\* the orchestrator invokes the meta layer in the cycle of the second error.
C31_EscalatesAfterTwoErrors ==
  [][(IsRunCycle /\ layer_result'.layer3_ran /\ layer_result'.errors_in_a_row >= 2) =>
       layer_result'.layer4_calls = 1]_vars

(* ------------------------ claims about the queue ---------------------- *)

\* the position of the request in the sequence, 0 if it is not in it
PositionIn(seq, id) ==
  IF \E i \in 1..Len(seq) : seq[i] = id
    THEN CHOOSE i \in 1..Len(seq) : seq[i] = id
    ELSE 0

\* C23: with one worker, if A is submitted before B and priority(A) <=
\* priority(B) then A is completed or failed no later than B; the worker
\* always picks the pending request with the smallest (priority, submission
\* time), never picks while another request is in processing, and requests
\* finish in the order they were picked.
C23_PriorityFifo ==
  [][
     /\ (picked' # picked) =>
           (LET id == picked'[Len(picked')]
            IN  /\ id \in DOMAIN pending_dir
                /\ \A other \in DOMAIN pending_dir :
                      \/ id[2] < other[2]
                      \/ id[2] = other[2] /\ id[1] <= other[1]
                /\ DOMAIN processing_dir = {}
                /\ Len(finished) = Len(picked))
     /\ Len(finished') <= Len(picked')
     /\ finished' = SubSeq(picked', 1, Len(finished'))
     /\ \A b \in DOMAIN written_before' :
           \A a \in written_before'[b] :
              (a[2] <= b[2] /\ PositionIn(finished', b) > 0) =>
                 /\ PositionIn(finished', a) > 0
                 /\ PositionIn(finished', a) < PositionIn(finished', b)
    ]_vars

\* three requests have finished: an INTERACTIVE one that overtook an
\* AUTONOMOUS one submitted before it, and two of one priority in the order
\* of their submission
C23_Witness ==
  /\ Len(finished) = 3
  /\ \E i, j \in 1..3 :
        /\ i < j
        /\ finished[i][2] = INTERACTIVE
        /\ finished[j][2] = AUTONOMOUS
        /\ finished[j] \in written_before[finished[i]]
  /\ \E i, j \in 1..3 :
        /\ i < j
        /\ finished[i][2] = finished[j][2]
        /\ finished[i] \in written_before[finished[j]]

\* the generations in flight against the backend: the worker's and the
\* callers' own
InFlight ==
  (IF worker_pc = "generating" THEN 1 ELSE 0)
    + Cardinality({c \in Callers : caller_pc[c] = "direct"})

\* C24: at every instant at most one generation is in flight against the
\* backend, counting the worker's call and every caller of the meta layer,
\* also one whose wait on the queue timed out or failed and who then
\* queries the backend directly.
C24_OneGenerationInFlight == InFlight <= 1

\* the directories that hold a file of the request
DirectoriesOf(id) ==
  {d \in {"pending", "processing", "completed", "failed"} :
     \/ d = "pending" /\ id \in DOMAIN pending_dir
     \/ d = "processing" /\ id \in DOMAIN processing_dir
     \/ d = "completed" /\ id \in DOMAIN completed_dir
     \/ d = "failed" /\ id \in DOMAIN failed_dir}

\* C25: from its submission on every request id is in exactly one of the
\* four directories at every instant, the moves between them being atomic;
\* and the file of a request in completed or failed is never modified.
C25_ExactlyOneDirectory ==
  \A c \in Callers :
     caller_pc[c] \in {"waiting", "direct", "returned"} /\ caller_request[c] # NoRequest =>
        Cardinality(DirectoriesOf(caller_request[c])) = 1

\* C26: after any interleaving of AUTONOMOUS submissions through the meta
\* layer at most one AUTONOMOUS request is in pending or processing: a
\* submission while one is there is skipped and writes no file.
C26_OneAutonomousRequest ==
  Cardinality({id \in DOMAIN pending_dir \cup DOMAIN processing_dir :
                 id[2] = AUTONOMOUS}) <= 1

(* ------------------- claims about the tool-calling loop ---------------- *)

\* every request the call has made of the backend, by any path
AllDispatches == dispatches.queued + dispatches.posted + dispatches.summaries

\* C27 as stated: the loop never raises and always terminates; for any
\* backend responses, tool results and backend errors it makes at most
\* max_iterations backend dispatches and returns the final assistant text,
\* a structured error record or the iteration-limit message.
C27_Original ==
  /\ AllDispatches <= max_iterations
  /\ tool_pc = "returned" => tool_return \in {"text", "error_record", "limit"}

\* C27, amended: the loop never raises and ends after at most
\* max_iterations passes; a pass submits at most one chat request to the
\* queue and posts at most one itself, so neither count exceeds the passes
\* made (the summary queries for large tool results come on top); what is
\* returned is the final assistant text, a structured error record, the
\* iteration-limit message or, to an AUTONOMOUS caller, the notice that a
\* check is already in progress.
C27_LoopEnds ==
  [][
     /\ (iteration' # iteration) =>
           (/\ tool_pc = "running"
            /\ iteration' = iteration + 1
            /\ dispatches'.queued <= dispatches.queued + 1
            /\ dispatches'.posted <= dispatches.posted + 1)
     /\ iteration' <= max_iterations
     /\ (iteration' = max_iterations) => (tool_pc' = "returned")
     /\ tool_config.enable_tools =>
           (dispatches'.queued <= iteration' /\ dispatches'.posted <= iteration')
     /\ ~tool_config.enable_tools =>
           (dispatches'.queued <= 1 /\ dispatches'.posted <= 1)
     /\ (tool_pc' = "returned") =>
           (/\ tool_return' \in {"text", "error_record", "limit", "skipped"}
            /\ (tool_return' = "skipped") =>
                  (tool_config.autonomous /\ tool_config.use_queue)
            /\ (tool_return' = "limit") => (iteration' = max_iterations))
     /\ (tool_pc' = "running") => (tool_return' = "none")
     /\ (tool_pc = "returned") => UNCHANGED toolVars
    ]_vars

\* the loop ran to its limit with the queue failing in every pass: twice as
\* many chat requests as passes, and summary queries on top
C27_Witness ==
  /\ tool_pc = "returned"
  /\ tool_return = "limit"
  /\ iteration = max_iterations
  /\ dispatches.queued = max_iterations
  /\ dispatches.posted = max_iterations
  /\ dispatches.summaries > 0

\* C34: when the backend answers a dispatch of the loop with a context-
\* length error, the loop resets the history to the system message and the
\* last user message and retries exactly once: the pass after an emergency
\* reset makes no further reset, it goes on or returns, and a failure in it
\* returns the structured error record.
C34_RetriesOnce ==
  [][(iteration' = iteration + 1 /\ emergency_resets >= 1) => emergency_resets' = 0]_vars

(* ----------------------- claims about persistence ---------------------- *)

\* C28: after a clean shutdown of the orchestrator and a start on the same
\* state directory the context buffer holds the entries, the token count
\* and the compression statistics it held before the shutdown.
C28_RestartRestoresContext ==
  [][restarts' = restarts + 1 => ThisContext' = ThisContext]_vars

(* ------------------ claims about the compression target --------------- *)

\* C29: when add_event runs a compression pass because admitting the entry
\* would exceed context_size, the pass ends with current_token_count at or
\* below its target, half of context_size, before the entry is admitted.
C29_CompressionReachesTarget ==
  (context_last.op = "add_event" /\ context_last.compressed) =>
     context_last.after.current_token_count <= context_size \div 2

(* --------------------- claims about the log patterns ------------------- *)

\* the log_pattern events among the triggers
LogPatternEvents(triggers) == {i \in 1..Len(triggers) : triggers[i].type = "log_pattern"}

\* C30: in a journal check pass each journal record produces at most one
\* log_pattern event, that of the first pattern of the ordered list that
\* matches it; a pass therefore returns no more log_pattern events than it
\* read records, and no event of a pattern when every record that matches
\* it matches an earlier pattern too.
C30_FirstMatchWins ==
  [][stats'.checks_performed = stats.checks_performed + 1 =>
       LET returned == check_last'.triggers
           records == check_last'.obs.matches
           FirstMatch(message) ==
             CHOOSE p \in Matched[message] : \A q \in Matched[message] : p <= q
           Matching == {e \in 1..Len(records) : Matched[records[e]] # {}}
       IN  /\ Cardinality(LogPatternEvents(returned)) <= Len(records)
           /\ \A i \in LogPatternEvents(returned) :
                 \E e \in Matching :
                    returned[i].key = CRITICAL_PATTERNS[FirstMatch(records[e])].key]_vars

(* ------------------- claims about the review's safe actions ----------- *)

\* the handler of the executor ran for the action handed over in this step
SafeHandlerRan ==
  /\ Len(action_log') = Len(action_log) + 1
  /\ action_log'[Len(action_log')].error # "Unknown action type"

\* C32: a safe action proposed by the review layer is executed directly on
\* the host, without entering the approval queue, if and only if its risk is
\* low and its action_type is one of investigation, restart_service,
\* cleanup; every other proposed action is discarded, and actions_executed
\* counts exactly the actions that were executed.
C32_SafeActionsRunDirectly ==
  [][
     (safe_last' # safe_last \/ clock' # clock) =>
       (/\ SafeHandlerRan <=>
              (/\ Get(safe_last'.action, "risk", "high") = "low"
               /\ safe_last'.action.action_type \in
                     {"investigation", "restart_service", "cleanup"})
        /\ approval_queue' = approval_queue
        /\ actions_executed' = actions_executed + (IF SafeHandlerRan THEN 1 ELSE 0))
  ]_vars

(* ------------------- claims about investigations ---------------------- *)

\* the command's first token, or its first two tokens for systemctl status,
\* is an entry of the allow-list
FirstTokenAllowed(cmd) ==
  \/ cmd[1] \in {"journalctl", "df", "free", "ps", "ss", "netstat"}
  \/ Len(cmd) >= 2 /\ cmd[1] = "systemctl" /\ cmd[2] = "status"

\* C33: the investigation handler runs a proposed command only when the
\* command's first token (or first two tokens for systemctl status) is an
\* entry of the allow-list; every other command produces a BLOCKED line
\* and is never passed to the shell.
C33_OnlyAllowListedRun ==
  \A k \in 1..Len(action_log) :
    LET commands == action_log[k].action.commands
        output == action_log[k].output
    IN  \A i \in 1..Len(commands) :
          ~FirstTokenAllowed(commands[i]) =>
            /\ HostCall(TRUE, commands[i]) \notin host_calls
            /\ \E j \in 1..Len(output) :
                  output[j] = Line("BLOCKED unsafe command", commands[i])

(* ------------------- claims about the token budget -------------------- *)

\* C35: after validate_context_size(model_capacity) the configured token
\* budget context_size is at most 75% of model_capacity.
C35_BudgetWithinThreeQuarters ==
  validated # "none" => 4 * context_size <= 3 * model_capacity

(* ------------------- claims about the tool-output cache --------------- *)

\* C36: any two tool outputs written to the tool-output cache receive
\* distinct cache ids, so no cached output is ever overwritten by a later
\* write, including two outputs of the same tool produced within the same
\* second.
C36_DistinctCacheIds ==
  /\ \A i, j \in 1..Len(cache_writes) :
        i # j => cache_writes[i].cache_id # cache_writes[j].cache_id
  /\ \A i \in 1..Len(cache_writes) :
        tool_cache[cache_writes[i].file] = cache_writes[i].output

(* ------------------- claims about concurrent queue changes ------------ *)

\* C37: an approval-queue entry added by the orchestrator while an
\* operator's approve_action is in progress in another process is never
\* lost, and approve_action(i) removes from the queue exactly the entry whose
\* proposal it executed: when approve_action writes the queue, the file
\* becomes what it was without that one entry.
C37_ApproveKeepsConcurrentEntries ==
  [][(op_pc = "remove" /\ op_pc' = "idle") =>
       \E k \in 1..Len(approval_queue) :
         /\ approval_queue[k] = op_queue[op_index + 1]
         /\ approval_queue' = Pop(approval_queue, k - 1)]_vars

(* ------------------- claims about the queue's progress ---------------- *)

\* the ids submit() can make in a run
RequestIds == {RequestId(m, p) : m \in 1..MaxLiveCalls, p \in Priorities}

\* C38: with a running worker whose backend calls always return or raise,
\* and with finitely many submissions, every submitted request eventually
\* reaches completed or failed, whatever its priority; no request stays in
\* pending or processing forever.
C38_EveryRequestIsServed ==
  \A id \in RequestIds :
    (id \in DOMAIN pending_dir \cup DOMAIN processing_dir)
      ~> (id \in DOMAIN completed_dir \cup DOMAIN failed_dir)

\* an AUTONOMOUS request was served after an INTERACTIVE request that was
\* submitted later
C38_Witness ==
  \E i, j \in 1..Len(finished) :
    /\ i < j
    /\ finished[j][2] = AUTONOMOUS
    /\ finished[i][2] = INTERACTIVE
    /\ finished[j][1] < finished[i][1]
    /\ finished[j] \in DOMAIN completed_dir \cup DOMAIN failed_dir

\* C39: if the worker is killed while a request is in processing and is
\* then restarted, that request eventually reaches completed or failed, and
\* later AUTONOMOUS submissions are eventually accepted again: a request
\* file left in processing never blocks the duplicate check forever.
C39_ProcessingIsRecovered ==
  \A id \in RequestIds :
    (id \in DOMAIN processing_dir)
      ~> (/\ id \in DOMAIN completed_dir \cup DOMAIN failed_dir
          /\ ~has_pending_with_priority(id[2]))

(* ------------------- claims about issues under work ------------------- *)

\* C40: an issue that the orchestrator has moved to investigating or fixing
\* is resolved once its problem stops being reported by the analyses of
\* later maintenance cycles: the auto-resolution at the end of a cycle whose
\* analysis ran resolves every live issue of the host under investigation
\* or under repair whose problem the analysis no longer detects, not only
\* those whose status is still open.
C40_AutoResolveReachesIssuesUnderWork ==
  [][(cycle_pc = "resolve" /\ cycle_pc' = "idle" /\ cycle_outcome = "parsed") =>
       \A issue_id \in LiveIds :
         (/\ issue_store[issue_id].hostname = SystemHostname
          /\ issue_store[issue_id].status \in {"investigating", "fixing"}
          /\ ~StillPresent(issue_store[issue_id], cycle_detected))
           => issue_store'[issue_id].status = "resolved"]_vars

====
